---- MODULE Spec2Model ----
(***************************************************************************)
(* A model of crtwo2fits' CR2 reader (src/src/crtwo2fits/cr2.py): the      *)
(* CR2Image facade (constructor, open, load, close, destructor), the       *)
(* container parser (header, IFD walk, Sensor, slice descriptor), the      *)
(* slice reassembly and the cropper.                                       *)
(*                                                                         *)
(* Python values are represented as follows.                               *)
(*   bytes            a sequence of integers 0..255                        *)
(*   dict             a function whose DOMAIN is the set of keys           *)
(*   an attribute     <<>> while it does not exist, <<v>> once it is set   *)
(*   an IFD value     [k |-> kind, v |-> sequence of integers]             *)
(*                      "int"        a scalar, v = <<x>>                   *)
(*                      "list"       a list of scalars                     *)
(*                      "rational"   the tuple (n, d), v = <<n, d>>        *)
(*                      "nan"        the string "nan"                      *)
(*                      "str"        a decoded string, v = its characters  *)
(*                      "undefined"  ('undefined', count, offset),         *)
(*                                   v = <<count, offset>>                 *)
(*   ndarray          [h |-> rows, w |-> columns, d |-> sequence of rows]  *)
(*   an exception     its kind, a string; "none" when the call returned    *)
(***************************************************************************)
EXTENDS Integers, Sequences, FiniteSets, TLC

VARIABLES
    file,   \* the CR2 file on disk and the decoder configuration (inputs)
    self,   \* the attributes of the CR2Image instance
    phase,  \* "new": not constructed; "live": held by the caller;
            \* "failed": the constructor raised; "discarded": destroyed
    call    \* the last call on the instance: arguments, error, result

vars == <<file, self, phase, call>>

----------------------------------------------------------------------------
(* Program constants                                                       *)

IMAGE_WIDTH == 256
STRIP_OFFSET == 273
STRIP_BYTES_COUNT == 279
EXIF == 34665
CR2_SLICE == 50752
EXPOSURE_TIME == 33434
MAKERNOTE == 37500
SENSOR_INFO == 224

\* b'II', b'MM', b'*', b'CR'
II == <<73, 73>>
MM == <<77, 77>>
Star == <<42>>
CR == <<67, 82>>

\* open(): header = self.fp.read(0x0f)
HeaderReadLen == 15

\* the Huffman decoder's sizes: the longest code, the bits the buffer must
\* hold before a sample is decoded, the bytes of one token ('>' + 'Q' * 16)
MAX_HUFFMAN_BITS == 16
MIN_BUFFER_LEN == 2 * MAX_HUFFMAN_BITS
TOKENLEN == 16 * 8

----------------------------------------------------------------------------
(* Bounds of the model                                                     *)

\* largest sensor / raster dimension drawn by the crop specification
MaxDim == 4

\* the largest predictor selection value and the largest magnitude of a
\* neighbouring pixel given to getPredictorValue
MaxPsv == 9
MaxPixel == 3

\* the longest code of the Huffman tables given to HuffmanTable and the
\* largest number of codes of one length
MaxCodeLen == 3
MaxCount == 3
MaxPayload == 4
MaxLead == 5
MaxWrites == 3
MaxEntries == 2
PipeCap == 1

----------------------------------------------------------------------------
(* Python helpers                                                          *)

\* Body with its parameter bound to value: a local variable of the code
With(value, Body(_)) == Body(value)

Min(a, b) == IF a < b THEN a ELSE b
Max(a, b) == IF a > b THEN a ELSE b

RECURSIVE Pow2(_)
Pow2(n) == IF n <= 0 THEN 1 ELSE 2 * Pow2(n - 1)

\* x << n
Shl(x, n) == x * Pow2(n)

\* a shift that rounds towards zero
Quot(x, n) == IF x >= 0 THEN x \div Pow2(n) ELSE -((-x) \div Pow2(n))

\* x >> n on Python's integers: the floor of x / 2^n
Shr(x, n) == x \div Pow2(n)

\* s[a:b] for a sequence and 0 <= a, 0 <= b (Python clips to the length)
PySlice(s, a, b) == SubSeq(s, Min(a, Len(s)) + 1, Min(b, Len(s)))

\* d[k] = v on a dict
Put(d, k, v) == [x \in (DOMAIN d) \cup {k} |-> IF x = k THEN v ELSE d[x]]

EmptyDict == [x \in {} |-> 0]

Scalar(x) == [k |-> "int", v |-> <<x>>]
List(xs) == [k |-> "list", v |-> xs]

\* numpy's fixed-width integer types: np.ubyte, np.uint16, np.uint32 wrap;
\* np.byte, np.int16, np.int32 wrap into the signed range.  The integers of
\* the model lie in -2^31 .. 2^31 - 1, where the 32-bit types change nothing.
WrapU(x, bits) == IF bits >= 31 THEN x ELSE x % Pow2(bits)
WrapS(x, bits) ==
    IF bits >= 32 THEN x
    ELSE LET u == x % Pow2(bits)
         IN  IF u >= Pow2(bits - 1) THEN u - Pow2(bits) ELSE u

----------------------------------------------------------------------------
(* _reconstructDataFromString                                              *)

RECURSIVE ReconstructLittle(_, _)
ReconstructLittle(bytesdata, b) ==
    IF b >= Len(bytesdata) THEN 0
    ELSE Shl(bytesdata[b + 1], b * 8) + ReconstructLittle(bytesdata, b + 1)

RECURSIVE ReconstructBig(_, _)
ReconstructBig(bytesdata, b) ==
    IF b >= Len(bytesdata) THEN 0
    ELSE Shl(bytesdata[b + 1], (Len(bytesdata) - b - 1) * 8)
         + ReconstructBig(bytesdata, b + 1)

ReconstructDataFromString(byte_order, bytesdata) ==
    IF byte_order = II
    THEN ReconstructLittle(bytesdata, 0)
    ELSE ReconstructBig(bytesdata, 0)

----------------------------------------------------------------------------
(* _getTypeSize and _getExifValue                                          *)

\* None (an unknown type id) is modelled as 0: no branch of _readIfd that
\* the input files reach compares it.
GetTypeSize(ind) ==
    CASE ind = 1 -> 1
      [] ind = 2 -> -1
      [] ind = 3 -> 2
      [] ind = 4 -> 4
      [] ind = 5 -> 8
      [] ind = 6 -> 1
      [] ind = 7 -> -2
      [] ind = 8 -> 2
      [] ind = 9 -> 4
      [] ind = 10 -> 8
      [] ind = 11 -> 4
      [] ind = 12 -> 8
      [] OTHER -> 0

Rational(n, d) ==
    IF n = 0 THEN Scalar(0)
    ELSE IF d = 0 THEN [k |-> "nan", v |-> <<>>]
    ELSE [k |-> "rational", v |-> <<n, d>>]

\* data is an integer; for the 8-byte rationals it is the pair
\* <<0xffffffff & data, data >> 32>>
GetExifValue(data, data_type) ==
    CASE data_type = 1 -> Scalar(WrapU(data, 8))
      [] data_type = 3 -> Scalar(WrapU(data, 16))
      [] data_type = 4 -> Scalar(WrapU(data, 32))
      [] data_type = 5 ->
            Rational(WrapU(data[1], 32), WrapU(data[2], 32))
      [] data_type = 6 -> Scalar(WrapS(data, 8))
      [] data_type = 8 -> Scalar(WrapS(data, 16))
      [] data_type = 9 -> Scalar(WrapS(data, 32))
      [] data_type = 10 ->
            Rational(WrapS(data[1], 32), WrapS(data[2], 32))
      [] data_type = 2 -> [k |-> "str", v |-> <<>>]
      [] OTHER -> Scalar(data)

----------------------------------------------------------------------------
(* The file.  The first 16 bytes are modelled as bytes; every other byte   *)
(* reads as 0 when it is read as a header.  The IFDs are modelled as the   *)
(* entries (tag, type, count, value_or_offset) stored at an offset, and    *)
(* the out-of-line values as the elements stored at an offset; an offset   *)
(* that holds nothing reads as zero bytes (an IFD of 0 entries).  A read   *)
(* stops at the end of the file (f.size).  f.after holds the bytes that   *)
(* stand at one more place of the file, after the entries of the raw IFD. *)

FileByte(f, i) ==
    IF i < Len(f.header) THEN f.header[i + 1]
    ELSE IF i >= f.after.at /\ i < f.after.at + Len(f.after.bytes)
    THEN f.after.bytes[i - f.after.at + 1]
    ELSE 0

\* the number of bytes self.fp.read(n) returns at position pos
ReadLen(f, pos, n) == Max(0, Min(n, f.size - pos))

\* self.fp.read(n) at position pos
FpRead(f, pos, n) == [j \in 1..ReadLen(f, pos, n) |-> FileByte(f, pos + j - 1)]

IfdEntriesAt(f, offset) ==
    IF offset \in DOMAIN f.ifd THEN f.ifd[offset] ELSE <<>>

\* the i-th element (1-based) of the values stored at offset off
DataAt(f, off, i) ==
    IF off \in DOMAIN f.data /\ i <= Len(f.data[off])
    THEN f.data[off][i]
    ELSE 0

----------------------------------------------------------------------------
(* CR2Image._readIfd                                                       *)

RECURSIVE ReadList(_, _, _, _)
ReadList(f, e, i, val) ==
    IF i > e.count THEN val
    ELSE ReadList(f, e, i + 1,
                  val \o GetExifValue(DataAt(f, e.valoff, i), e.type).v)

\* the value stored for one entry: out of line when tagNum > 1 or the type
\* is wider than 4 bytes, else decoded from the value_or_offset field.  A
\* list of one value is replaced by that value (if len(val) == 1).
EntryOutOfLine(e) == (e.count > 1) \/ (GetTypeSize(e.type) > 4)

EntryValue(f, e) ==
    IF EntryOutOfLine(e)
    THEN LET datasize == GetTypeSize(e.type)
         IN  IF datasize = -1
             THEN [k |-> "str",
                   v |-> SelectSeq([i \in 1..e.count |-> DataAt(f, e.valoff, i)],
                                   LAMBDA c : c # 0)]
             ELSE IF datasize = -2
             THEN [k |-> "undefined",
                   v |-> <<e.count, GetExifValue(e.valoff, e.type).v[1]>>]
             ELSE IF e.count = 1
             THEN GetExifValue(DataAt(f, e.valoff, 1), e.type)
             ELSE List(ReadList(f, e, 1, <<>>))
    ELSE GetExifValue(e.valoff, e.type)

RECURSIVE ReadEntries(_, _, _, _)
ReadEntries(f, entries, i, tags) ==
    IF i > Len(entries) THEN tags
    ELSE ReadEntries(f, entries, i + 1,
                     Put(tags, entries[i].tag, EntryValue(f, entries[i])))

\* the tags dictionary, and the position of the read cursor afterwards (every
\* entry restores the cursor to the end of its 12 bytes)
ReadIfd(f, offset) ==
    With(IfdEntriesAt(f, offset), LAMBDA entries :
      [tags |-> ReadEntries(f, entries, 1, EmptyDict),
       pos  |-> offset + ReadLen(f, offset, 2 + 12 * Len(entries))])

\* val[i] on an IFD value: <<x>>, or <<>> where Python raises
Subscript(val, i) ==
    CASE val.k \in {"list", "rational"} /\ i < Len(val.v) -> <<val.v[i + 1]>>
      [] val.k = "undefined" /\ i \in 1..2 -> <<val.v[i]>>
      [] OTHER -> <<>>

----------------------------------------------------------------------------
(* CR2Image._readIfd on the bytes of a file, with the read cursor          *)

\* an integer of up to 8 bytes as _getExifValue takes it: the integer, or
\* for the 8-byte types the pair of its low and high 32 bits
DataOff(byteorder, data, datasize) ==
    IF datasize <= 4 THEN ReconstructDataFromString(byteorder, data)
    ELSE IF byteorder = II
    THEN <<ReconstructDataFromString(II, PySlice(data, 0, 4)),
           ReconstructDataFromString(II, PySlice(data, 4, 8))>>
    ELSE <<ReconstructDataFromString(MM, PySlice(data, 4, 8)),
           ReconstructDataFromString(MM, PySlice(data, 0, 4))>>

\* "for i in range(tagNum)" of the out-of-line branch from the i-th value
\* on: each turn reads datasize bytes at the cursor
RECURSIVE ReadValues(_, _, _, _, _, _)
ReadValues(bytes, byteorder, e, pos, i, val) ==
    IF i >= e.count THEN [val |-> val, pos |-> pos]
    ELSE With(PySlice(bytes, pos, pos + GetTypeSize(e.type)), LAMBDA data :
           ReadValues(bytes, byteorder, e, pos + Len(data), i + 1,
                      val \o GetExifValue(DataOff(byteorder, data,
                                                  GetTypeSize(e.type)),
                                          e.type).v))

\* the cursor stays where the values of the entry ended
CursorLeft(fppos, pos) == pos

\* self.fp.seek(fppos, 0) after the values of an entry were read up to pos
CursorRestored(fppos, pos) == fppos

\* the value of the entry e, whose 12 bytes ended at fppos, and the cursor
\* afterwards
ValueOf(bytes, byteorder, e, fppos) ==
    IF (e.count > 1) \/ (GetTypeSize(e.type) > 4)
    THEN IF GetTypeSize(e.type) = -1
         THEN With(PySlice(bytes, e.valoff, e.valoff + e.count), LAMBDA data :
                [val |-> [k |-> "str",
                          v |-> SelectSeq(data, LAMBDA c : c # 0)],
                 pos |-> CursorRestored(fppos, e.valoff + Len(data))])
         ELSE IF GetTypeSize(e.type) = -2
         THEN [val |-> [k |-> "undefined",
                        v |-> <<e.count, GetExifValue(e.valoff, e.type).v[1]>>],
               pos |-> CursorRestored(fppos, e.valoff)]
         ELSE With(ReadValues(bytes, byteorder, e, e.valoff, 0, <<>>),
                   LAMBDA r :
                [val |-> IF e.count = 1
                         THEN GetExifValue(
                                DataOff(byteorder,
                                        PySlice(bytes, e.valoff, e.valoff
                                                + GetTypeSize(e.type)),
                                        GetTypeSize(e.type)), e.type)
                         ELSE List(r.val),
                 pos |-> CursorRestored(fppos, r.pos)])
    ELSE [val |-> GetExifValue(e.valoff, e.type), pos |-> fppos]

\* the 12 bytes data of an entry as tagID, tagType, tagNum, tagValOff
EntryOf(byteorder, data) ==
    [tag |-> ReconstructDataFromString(byteorder, PySlice(data, 0, 2)),
     type |-> ReconstructDataFromString(byteorder, PySlice(data, 2, 4)),
     count |-> ReconstructDataFromString(byteorder, PySlice(data, 4, 8)),
     valoff |-> ReconstructDataFromString(byteorder, PySlice(data, 8, 12))]

\* "for i in range(...)" of _readIfd from the i-th entry of n on, the cursor
\* at pos; read holds the position each entry was read at and its fields
RECURSIVE ReadTags(_, _, _, _, _, _, _)
ReadTags(bytes, byteorder, pos, i, n, tags, read) ==
    IF i >= n THEN [tags |-> tags, pos |-> pos, read |-> read]
    ELSE
    With(PySlice(bytes, pos, pos + 12), LAMBDA data :
    With(EntryOf(byteorder, data), LAMBDA e :
    With(ValueOf(bytes, byteorder, e, pos + Len(data)), LAMBDA r :
      ReadTags(bytes, byteorder, r.pos, i + 1, n,
               Put(tags, e.tag, r.val),
               Append(read, [at |-> pos, entry |-> e])))))

\* _readIfd(byteorder, offset) on the file bytes
ReadIfdBytes(bytes, byteorder, offset) ==
    With(PySlice(bytes, offset, offset + 2), LAMBDA raw_ifd :
      ReadTags(bytes, byteorder, offset + Len(raw_ifd), 0,
               ReconstructDataFromString(byteorder, raw_ifd),
               EmptyDict, <<>>))

----------------------------------------------------------------------------
(* getPredictorValue                                                       *)

GetPredictorValue(psv, px_left, px_top, px_topleft) ==
    CASE psv = 1 -> px_left
      [] psv = 2 -> px_top
      [] psv = 3 -> px_topleft
      [] psv = 4 -> px_left + px_top - px_topleft
      [] psv = 5 -> px_left + Shr(px_top - px_topleft, 1)
      [] psv = 6 -> px_top + Shr(px_left - px_topleft, 1)
      [] psv = 7 -> Shr(px_top - px_left, 1)
      [] OTHER -> 0

----------------------------------------------------------------------------
(* HuffmanTable.  A code is the sequence of its bits (the string of '0'    *)
(* and '1' of the code); data is the DHT segment, marker and length first. *)

\* data[i] of a bytes object (0-based); -1 stands for IndexError
ByteAt(data, i) == IF i < Len(data) THEN data[i + 1] ELSE -1

\* the symbols dict of one table: symbols[0] = [] and, for i in 1..16, the
\* data[offset + 1 + (i - 1)] symbols of the codes of i bits
RECURSIVE ReadSymbols(_, _, _, _, _)
ReadSymbols(data, offset, i, count, symbols) ==
    IF i > MAX_HUFFMAN_BITS THEN [err |-> "none", sym |-> symbols,
                                  count |-> count]
    ELSE With(ByteAt(data, offset + i), LAMBDA current :
           IF current < 0
              \/ (current > 0
                  /\ ByteAt(data, offset + 17 + count + current - 1) < 0)
           THEN [err |-> "IndexError", sym |-> symbols, count |-> count]
           ELSE ReadSymbols(data, offset, i + 1, count + current,
                            symbols @@ (i :> [j \in 1..current |->
                                ByteAt(data, offset + 17 + count + j - 1)])))

\* every prefix followed by '1' and by '0', the larger code first
RECURSIVE LargerFirst(_, _)
LargerFirst(branches, k) ==
    IF k > Len(branches) THEN <<>>
    ELSE <<branches[k] \o <<1>>, branches[k] \o <<0>>>>
         \o LargerFirst(branches, k + 1)

\* every prefix of branches[row] followed by '0' and by '1', in order
RECURSIVE Extend(_, _)
Extend(branches, k) ==
    IF k > Len(branches) THEN <<>>
    ELSE <<branches[k] \o <<0>>, branches[k] \o <<1>>>>
         \o Extend(branches, k + 1)

\* the number of the last key of sym with a non-empty list
RECURSIVE LastNonNull(_, _)
LastNonNull(sym, i) ==
    IF i = 0 THEN 0
    ELSE IF Len(sym[i]) # 0 THEN i
    ELSE LastNonNull(sym, i - 1)

\* the while loop of generateCodes from row on: the first len(sym[row+1])
\* extensions of the branches become the codes of row + 1 bits, the others
\* the branches of the next row; leafs is len(leafs)
RECURSIVE GenerateFrom(_, _, _, _, _, _)
GenerateFrom(sym, row, branches, leafs, codes, totalcodes) ==
    IF ~(leafs < totalcodes /\ row <= LastNonNull(sym, MAX_HUFFMAN_BITS))
    THEN [err |-> "none", codes |-> codes]
    ELSE IF (row + 1) \notin DOMAIN sym
    THEN [err |-> "KeyError", codes |-> codes]
    ELSE With(Extend(branches, 1), LAMBDA ext :
         With(Min(Len(sym[row + 1]), Len(ext)), LAMBDA taken :
           GenerateFrom(sym, row + 1, SubSeq(ext, taken + 1, Len(ext)),
                        leafs + taken,
                        [c \in DOMAIN codes
                               \cup {ext[k] : k \in 1..taken} |->
                            IF \E k \in 1..taken : ext[k] = c
                            THEN sym[row + 1][CHOOSE k \in 1..taken :
                                                 ext[k] = c]
                            ELSE codes[c]],
                        totalcodes)))

\* generateCodes(sym): the dict from each code to its symbol
GenerateCodes(sym, totalcodes) ==
    GenerateFrom(sym, 0, <<<<>>>>, 0, EmptyDict, totalcodes)

\* the while loop of __init__ from offset on: one table per turn, stored
\* under (index, type); tables is the dict, order its keys as inserted
RECURSIVE ReadTables(_, _, _, _)
ReadTables(data, offset, tables, order) ==
    IF ~(offset < Len(data))
    THEN [err |-> "none", codes |-> tables, order |-> order]
    ELSE
    With(ByteAt(data, offset), LAMBDA info :
      IF (info \div 16) # 0
      THEN [err |-> "InvalidTable", codes |-> tables, order |-> order]
      ELSE
      With(ReadSymbols(data, offset, 1, 0, (0 :> <<>>)), LAMBDA read :
        IF read.err # "none"
        THEN [err |-> read.err, codes |-> tables, order |-> order]
        ELSE
        With(GenerateCodes(read.sym, read.count), LAMBDA gen :
          IF gen.err # "none"
          THEN [err |-> gen.err, codes |-> tables, order |-> order]
          ELSE ReadTables(data, offset + 17 + read.count,
                          Put(tables, <<info % 8, 0>>, gen.codes),
                          IF <<info % 8, 0>> \in DOMAIN tables
                          THEN order
                          ELSE Append(order, <<info % 8, 0>>)))))

\* HuffmanTable(data)
HuffmanTable(data) ==
    IF PySlice(data, 0, 2) # <<255, 196>>
    THEN [err |-> "InvalidTable", codes |-> EmptyDict, order |-> <<>>]
    ELSE ReadTables(data, 4, EmptyDict, <<>>)

----------------------------------------------------------------------------
(* Sensor and CR2Image.getImageBorders                                     *)

SensorOf(data) ==
    [width         |-> data.v[2],
     height        |-> data.v[3],
     left_border   |-> data.v[6],
     top_border    |-> data.v[7],
     right_border  |-> data.v[8],
     bottom_border |-> data.v[9],
     black_mask_left_border   |-> data.v[10],
     black_mask_top_border    |-> data.v[11],
     black_mask_right_border  |-> data.v[12],
     black_mask_bottom_border |-> data.v[13]]

\* the right border as the maker note gives it, parity not adjusted
RawRightBorder(sensor) == sensor.right_border

BottomBorder(sensor) == sensor.bottom_border - (sensor.bottom_border % 2)
TopBorder(sensor) == sensor.top_border + (sensor.top_border % 2)
LeftBorder(sensor) == sensor.left_border + (sensor.left_border % 2)
RightBorder(sensor) == sensor.right_border - (sensor.right_border % 2)

\* (lbord, bbord, rbord, tbord)
GetImageBorders(sensor) ==
    <<LeftBorder(sensor), BottomBorder(sensor),
      RightBorder(sensor), TopBorder(sensor)>>

----------------------------------------------------------------------------
(* CR2Image.open                                                           *)

\* what a method leaves behind: the instance, the exception kind ("none"
\* when it returned) and, for open(), the stage it reached and the two
\* offsets it took from the header (-1 before they are computed)
Outcome(s, err, stage, o0, o3) ==
    [self |-> s, err |-> err, stage |-> stage,
     ifd0_offset |-> o0, ifd3_offset |-> o3]

KnownEndian(byteorder) == byteorder = II \/ byteorder = MM

ModeOf(byteorder) == IF byteorder = II THEN "L;16" ELSE "L;16B"

HeaderIsCR2(header) ==
    ~((PySlice(header, 2, 3) # Star) \/ (PySlice(header, 8, 10) # CR))

\* float(str(header[0x0a]) + '.' + str(header[0x0b])), kept as the pair
HeaderVersion(header) == <<header[11], header[12]>>

Ifd0Offset(byteorder, header) ==
    ReconstructDataFromString(byteorder, PySlice(header, 4, 8))

Ifd3Offset(byteorder, header) ==
    ReconstructDataFromString(byteorder, PySlice(header, 12, 16))

\* open() without its two tag checks: every IFD passes
AnyTag(tags, tag) == TRUE

\* if (TAG not in ifd.keys()): raise SyntaxError(ERR_NOT_CR2)
RequireTag(tags, tag) == tag \in DOMAIN tags

\* the header: read, byte order, magic, version, offsets
OpenHeader(s, f) ==
    IF s.fp = "unset" THEN Outcome(s, "AttributeError", "read", -1, -1)
    ELSE IF s.fp = "closed" THEN Outcome(s, "ValueError", "read", -1, -1)
    ELSE
    With(FpRead(f, s.fppos, HeaderReadLen), LAMBDA header :
    With(PySlice(header, 0, 2), LAMBDA byteorder :
    With([s EXCEPT !.fppos = @ + Len(header), !.byteorder = <<byteorder>>],
         LAMBDA s1 :
      IF ~KnownEndian(byteorder)
      THEN Outcome(s1, "UnknownEndian", "endian", -1, -1)
      ELSE IF ~HeaderIsCR2(header)
      THEN Outcome([s1 EXCEPT !.mode = <<ModeOf(byteorder)>>],
                   "NotCR2", "header", -1, -1)
      ELSE Outcome([s1 EXCEPT !.mode = <<ModeOf(byteorder)>>,
                              !.version = HeaderVersion(header)],
                   "none", "offsets",
                   Ifd0Offset(byteorder, header),
                   Ifd3Offset(byteorder, header)))))

\* IFD0, the EXIF sub-IFD and the MakerNote IFD
OpenExif(r, f) ==
    With(ReadIfd(f, r.ifd0_offset), LAMBDA ifd0 :
    With([r.self EXCEPT !.IFD0 = <<ifd0.tags>>, !.fppos = ifd0.pos],
         LAMBDA s1 :
      IF ~RequireTag(ifd0.tags, EXIF)
      THEN Outcome(s1, "NotCR2", "ifd0", r.ifd0_offset, r.ifd3_offset)
      ELSE IF EXIF \notin DOMAIN ifd0.tags
      THEN Outcome(s1, "KeyError", "ifd0", r.ifd0_offset, r.ifd3_offset)
      ELSE IF ifd0.tags[EXIF].k # "int"
      THEN Outcome(s1, "TypeError", "ifd0", r.ifd0_offset, r.ifd3_offset)
      ELSE
      With(ReadIfd(f, ifd0.tags[EXIF].v[1]), LAMBDA exif :
      With([s1 EXCEPT !.EXIF = <<exif.tags>>, !.fppos = exif.pos],
           LAMBDA s2 :
        IF ~RequireTag(exif.tags, MAKERNOTE)
        THEN Outcome(s2, "NotCR2", "exif", r.ifd0_offset, r.ifd3_offset)
        ELSE IF MAKERNOTE \notin DOMAIN exif.tags
        THEN Outcome(s2, "KeyError", "exif", r.ifd0_offset, r.ifd3_offset)
        ELSE
        With(Subscript(exif.tags[MAKERNOTE], 2), LAMBDA offset :
          IF offset = <<>>
          THEN Outcome(s2, "IndexError", "exif",
                       r.ifd0_offset, r.ifd3_offset)
          ELSE
          With(ReadIfd(f, offset[1]), LAMBDA mn :
            Outcome([s2 EXCEPT !.MAKERNOTES = <<mn.tags>>,
                               !.fppos = mn.pos],
                    "none", "makernotes",
                    r.ifd0_offset, r.ifd3_offset)))))))

\* Sensor(self.MAKERNOTES[SENSOR_INFO]) and self.size
OpenSensor(r, f) ==
    With(r.self.MAKERNOTES[1], LAMBDA tags :
      IF SENSOR_INFO \notin DOMAIN tags
      THEN Outcome(r.self, "KeyError", "makernotes",
                   r.ifd0_offset, r.ifd3_offset)
      ELSE IF ~(tags[SENSOR_INFO].k = "list"
                /\ Len(tags[SENSOR_INFO].v) >= 13)
      THEN Outcome(r.self, "IndexError", "makernotes",
                   r.ifd0_offset, r.ifd3_offset)
      ELSE
      With(SensorOf(tags[SENSOR_INFO]), LAMBDA sensor :
      With(GetImageBorders(sensor), LAMBDA border :
        Outcome([r.self EXCEPT
                    !.Sensor = <<sensor>>,
                    !.size = <<<<border[3] - border[1],
                                 border[2] - border[4]>>>>],
                "none", "sensor", r.ifd0_offset, r.ifd3_offset))))

\* the first element of a stored value, as the tuple CR2_SLICES holds it
\* (the strip tags of the input files are scalars)
Item(val) == IF Len(val.v) >= 1 THEN val.v[1] ELSE 0

\* the slice descriptor of a raw IFD without the CR2_SLICE tag
SingleSlice(tags) ==
    <<Item(tags[STRIP_OFFSET]), 0, Item(tags[STRIP_BYTES_COUNT]), -1, 0>>

\* the slice descriptor of a raw IFD with the CR2_SLICE tag
TaggedSlices(tags) ==
    <<Item(tags[STRIP_OFFSET]),
      Subscript(tags[CR2_SLICE], 0)[1],
      Item(tags[STRIP_BYTES_COUNT]),
      Subscript(tags[CR2_SLICE], 1)[1],
      Subscript(tags[CR2_SLICE], 2)[1]>>

\* the raw IFD and the slice descriptor
OpenRaw(r, f) ==
    With(ReadIfd(f, r.ifd3_offset), LAMBDA ifd3 :
    With([r.self EXCEPT !.IFD3 = <<ifd3.tags>>, !.fppos = ifd3.pos],
         LAMBDA s1 :
      IF STRIP_OFFSET \notin DOMAIN ifd3.tags
      THEN Outcome(s1, "KeyError", "ifd3", r.ifd0_offset, r.ifd3_offset)
      ELSE IF CR2_SLICE \in DOMAIN ifd3.tags
              /\ Subscript(ifd3.tags[CR2_SLICE], 0) = <<>>
      THEN Outcome(s1, "IndexError", "ifd3", r.ifd0_offset, r.ifd3_offset)
      ELSE IF STRIP_BYTES_COUNT \notin DOMAIN ifd3.tags
      THEN Outcome(s1, "KeyError", "ifd3", r.ifd0_offset, r.ifd3_offset)
      ELSE IF CR2_SLICE \in DOMAIN ifd3.tags
              /\ Subscript(ifd3.tags[CR2_SLICE], 2) = <<>>
      THEN Outcome(s1, "IndexError", "ifd3", r.ifd0_offset, r.ifd3_offset)
      ELSE
      Outcome([s1 EXCEPT
                  !.CR2_SLICES = <<IF CR2_SLICE \notin DOMAIN ifd3.tags
                                   THEN SingleSlice(ifd3.tags)
                                   ELSE TaggedSlices(ifd3.tags)>>,
                  !.isOpened = TRUE],
              "none", "done", r.ifd0_offset, r.ifd3_offset)))

Open(s, f) ==
    With(OpenHeader(s, f), LAMBDA r1 :
      IF r1.err # "none" THEN r1 ELSE
      With(OpenExif(r1, f), LAMBDA r2 :
        IF r2.err # "none" THEN r2 ELSE
        With(OpenSensor(r2, f), LAMBDA r3 :
          IF r3.err # "none" THEN r3 ELSE OpenRaw(r3, f))))

----------------------------------------------------------------------------
(* ndarray helpers                                                         *)

Array(h, w, d) == [h |-> h, w |-> w, d |-> d]

\* the start and stop of the slice a:b of an axis of length n
SliceIndex(x, n) == IF x < 0 THEN Max(x + n, 0) ELSE Min(x, n)

\* A[t:b, l:r]; a slice never raises IndexError, it is clipped to the array
Slice2D(A, t, b, l, r) ==
    With(SliceIndex(t, A.h), LAMBDA r0 :
    With(SliceIndex(l, A.w), LAMBDA c0 :
    With(Max(SliceIndex(b, A.h) - r0, 0), LAMBDA h :
    With(Max(SliceIndex(r, A.w) - c0, 0), LAMBDA w :
      Array(h, w, [i \in 1..h |-> [j \in 1..w |-> A.d[r0 + i][c0 + j]]])))))

RECURSIVE SumSeq(_)
SumSeq(xs) == IF xs = <<>> THEN 0 ELSE Head(xs) + SumSeq(Tail(xs))

----------------------------------------------------------------------------
(* The native decoder: decodeRawImage and decompressLosslessJpeg.  The     *)
(* entropy-coded strip is represented by the raster its Huffman decoding   *)
(* yields (f.raster: H rows of W samples, flattened row by row).           *)

\* a strip whose first and last two bytes are always the markers
GoodStrip(f, offset, length) == [soi |-> TRUE, eoi |-> TRUE]

\* the strip read by fp.seek(CR2_SLICES[0]); fp.read(CR2_SLICES[2]): the
\* strip of the file when offset and length are its own, zero bytes else
StripAt(f, offset, length) ==
    IF offset = f.strip.at /\ length = f.strip.len
    THEN [soi |-> f.strip.soi, eoi |-> f.strip.eoi]
    ELSE [soi |-> FALSE, eoi |-> FALSE]

\* slices_size: [CR2_SLICES[3]] * CR2_SLICES[1] + [CR2_SLICES[4]]
SlicesSize(slices) ==
    [i \in 1..(slices[2] + 1) |->
        IF i <= slices[2] THEN slices[4] ELSE slices[5]]

\* the slice that holds column c (0-based) of the output, 0 if none does
RECURSIVE SliceOfColumn(_, _, _, _)
SliceOfColumn(S, c, i, start) ==
    IF i > Len(S) THEN 0
    ELSE IF c < start + S[i] THEN i
    ELSE SliceOfColumn(S, c, i + 1, start + S[i])

\* every slice taken to start at column 0
FirstColumn(S, i) == 0

SliceStart(S, i) == SumSeq(SubSeq(S, 1, i - 1))

\* image[:, start:end] = flattened[imageh*start:imageh*end].reshape((imageh, s))
\* for every slice; a cell no slice covers keeps what np.empty left (junk)
Reassemble(flat, imageh, imagew, S, junk) ==
    Array(imageh, imagew,
          [i \in 1..imageh |-> [j \in 1..imagew |->
              With(SliceOfColumn(S, j - 1, 1, 0), LAMBDA k :
                IF k = 0 THEN junk
                ELSE With(SliceStart(S, k), LAMBDA start :
                       flat[imageh * start + (i - 1) * S[k]
                            + (j - 1 - start) + 1]))]])

\* the raster of the strip, flattened ('C' order); sample k holds value k
Flattened(f) == [k \in 1..(f.raster.h * f.raster.w) |-> k - 1]

\* the result of a decoder: the instance, the exception kind, the array
\* (<<>> when the decoder returned None or raised)
Decoded(s, err, img) == [self |-> s, err |-> err, img |-> img]

\* a handle that is moved forwards only
SeekForward(s, offset) == Max(s.fppos, offset)

\* the position after fp.seek(offset, 0)
FpSeek(s, offset) == offset

DecodeRawImage(s, f, junk) ==
    With(s.CR2_SLICES[1], LAMBDA slices :
    With(FpSeek(s, slices[1]), LAMBDA pos :
    With(StripAt(f, pos, slices[3]), LAMBDA strip :
    With([s EXCEPT !.fppos = pos + ReadLen(f, pos, slices[3])],
         LAMBDA s1 :
      IF ~strip.eoi THEN Decoded(s1, "InvalidMarker", <<>>)
      ELSE IF ~strip.soi THEN Decoded(s1, "InvalidMarker", <<>>)
      ELSE IF slices[2] = 0 THEN Decoded(s1, "AttributeError", <<>>)
      ELSE IF SumSeq(SlicesSize(slices)) > f.raster.w
      THEN Decoded(s1, "ValueError", <<>>)
      ELSE Decoded(s1, "none",
                   <<Reassemble(Flattened(f), f.raster.h, f.raster.w,
                                SlicesSize(slices), junk)>>)))))

----------------------------------------------------------------------------
(* decodeRawImage on the bytes of the strip: the markers, the tables and   *)
(* the entropy-coded data handed to decompressLosslessJpeg                 *)

\* FrameTable(data); IndexError when the segment is too short
FrameTable(data) ==
    IF Len(data) < 10 \/ Len(data) < 10 + 3 * ByteAt(data, 9)
    THEN [err |-> "IndexError", bits |-> 0, height |-> 0, width |-> 0,
          components |-> 0]
    ELSE [err |-> "none",
          bits |-> ByteAt(data, 4),
          height |-> ReconstructDataFromString(MM, PySlice(data, 5, 7)),
          width |-> ReconstructDataFromString(MM, PySlice(data, 7, 9)),
          components |-> ByteAt(data, 9)]

\* ScanTable(data); IndexError when the segment is too short
ScanTable(data) ==
    IF Len(data) < 5 \/ Len(data) < 4 + 2 * ByteAt(data, 4) + 4
    THEN [err |-> "IndexError", components |-> 0, psv |-> 0]
    ELSE [err |-> "none",
          components |-> ByteAt(data, 4),
          psv |-> ByteAt(data, 4 + 2 * ByteAt(data, 4) + 1)]

\* rawdata.find(b'\xff', from): the first place of an FF byte, -1 if none
Find255(rawdata, from) ==
    With({k \in from..(Len(rawdata) - 1) : rawdata[k + 1] = 255},
         LAMBDA places :
           IF places = {} THEN -1
           ELSE CHOOSE k \in places : \A j \in places : k <= j)

\* the while loop over the FF bytes of the strip from the one at i on:
\* hts holds the last table of each kind (<<>> when none was met), start
\* is image_data_start (-1 for None)
RECURSIVE WalkMarkers(_, _, _, _)
WalkMarkers(rawdata, i, hts, start) ==
    IF i < 0 THEN [err |-> "none", hts |-> hts, start |-> start]
    ELSE
    With(ReconstructDataFromString(MM, PySlice(rawdata, i + 2, i + 4)) + 2,
         LAMBDA sect_len :
    With(PySlice(rawdata, i, i + 2), LAMBDA marker :
    With(PySlice(rawdata, i, i + sect_len), LAMBDA section :
      IF marker = <<255, 196>>
      THEN With(HuffmanTable(section), LAMBDA h :
             IF h.err # "none"
             THEN [err |-> h.err, hts |-> hts, start |-> start]
             ELSE WalkMarkers(rawdata, Find255(rawdata, i + 1),
                              [hts EXCEPT !.dht = <<h>>], start))
      ELSE IF marker = <<255, 195>>
      THEN With(FrameTable(section), LAMBDA sof :
             IF sof.err # "none"
             THEN [err |-> sof.err, hts |-> hts, start |-> start]
             ELSE WalkMarkers(rawdata, Find255(rawdata, i + 1),
                              [hts EXCEPT !.sof = <<sof>>], start))
      ELSE IF marker = <<255, 218>>
      THEN With(ScanTable(section), LAMBDA sos :
             IF sos.err # "none"
             THEN [err |-> sos.err, hts |-> hts, start |-> start]
             ELSE WalkMarkers(rawdata, Find255(rawdata, i + 1),
                              [hts EXCEPT !.sos = <<sos>>], i + sect_len))
      ELSE WalkMarkers(rawdata, Find255(rawdata, i + 1), hts, start))))

\* the least member of a set of integers, none when the set is empty
Least(S, none) == IF S = {} THEN none ELSE CHOOSE k \in S : \A j \in S : k <= j

\* the place (1-based) of the first pair FF 00 of data from place i on, 0
\* if there is none
FindPair(data, i) ==
    Least({k \in i..(Len(data) - 1) : data[k] = 255 /\ data[k + 1] = 0}, 0)

\* every pair FF 00 of the data, wherever it still is after the pairs
\* before it were replaced, replaced by FF
RECURSIVE ReplaceAgain(_, _)
ReplaceAgain(data, i) ==
    With(FindPair(data, i), LAMBDA k :
      IF k = 0 THEN SubSeq(data, i, Len(data))
      ELSE SubSeq(data, i, k)
           \o ReplaceAgain(data, Least({j \in (k + 1)..Len(data) :
                                            data[j] # 0}, Len(data) + 1)))

\* imdata.replace(b'\xff\x00', b'\xff') from the i-th byte on: the pairs
\* are found from left to right and do not overlap
RECURSIVE Replace(_, _)
Replace(data, i) ==
    With(FindPair(data, i), LAMBDA k :
      IF k = 0 THEN SubSeq(data, i, Len(data))
      ELSE SubSeq(data, i, k) \o Replace(data, k + 2))

\* rawdata[image_data_start:image_data_end] with the stuffed bytes taken out
ImageData(rawdata, start) ==
    Replace(PySlice(rawdata, IF start < 0 THEN 0 ELSE start,
                    Max(Len(rawdata) - 2, 0)), 1)

----------------------------------------------------------------------------
(* decompressLosslessJpeg on the bytes of the entropy-coded data.  The     *)
(* buffer buff is the bits of data from bit bp up to byte datapos; lenbuff *)
(* is the count the code keeps of them.                                    *)

\* the p-th bit (0-based, most significant first) of the bytes data
BitAt(data, p) == (data[(p \div 8) + 1] \div Pow2(7 - (p % 8))) % 2

\* buff[a:b]
BuffSlice(data, d, a, b) ==
    [k \in 1..Max(Min(b, 8 * d.datapos - d.bp) - a, 0) |->
        BitAt(data, d.bp + a + k - 1)]

\* int(sbin, 2)
IntOfBits(sbin) ==
    SumSeq([k \in 1..Len(sbin) |-> sbin[k] * Pow2(Len(sbin) - k)])

\* masks[dlen] of the masks (1 << i) - 1 for i in range(MAX_HUFFMAN_BITS);
\* <<>> stands for IndexError
Mask(dlen) == IF dlen < MAX_HUFFMAN_BITS THEN <<Pow2(dlen) - 1>> ELSE <<>>

\* the state of the decoder before the first sample; table is the key of
\* the table in use, i the count of the symbols decoded with several tables
DecoderStart(half_max_val, components, table) ==
    [err |-> "none", bp |-> 0, datapos |-> TOKENLEN,
     lenbuff |-> 8 * TOKENLEN,
     predictor |-> [c \in 1..components |-> half_max_val],
     image |-> <<>>, crow |-> <<>>, i |-> 0, table |-> table,
     trace |-> <<>>]

\* if (lenbuff < MIN_BUFFER_LEN): one more token, or the rest of the data
Refill(data, d) ==
    IF ~(d.lenbuff < MIN_BUFFER_LEN) THEN d
    ELSE IF d.datapos <= Len(data) - TOKENLEN
    THEN [d EXCEPT !.lenbuff = @ + 8 * TOKENLEN, !.datapos = @ + TOKENLEN]
    ELSE IF d.datapos < Len(data)
    THEN [d EXCEPT !.lenbuff = 8 * Len(data) - d.bp, !.datapos = Len(data)]
    ELSE d

\* the keys of the table that are the first bits of the buffer (at most
\* one: no code of a table is the beginning of another)
MatchingKeys(data, d, table) ==
    {key \in DOMAIN table : key = BuffSlice(data, d, 0, Len(key))}

\* the additional bits as a value; <<>> stands for IndexError
AdditionalValue(sbin, dlen) ==
    IF dlen = 0 THEN <<0>>
    ELSE IF sbin = <<>> THEN <<>>
    ELSE IF sbin[1] = 0
    THEN IF Mask(dlen) = <<>> THEN <<>>
         ELSE <<-((Mask(dlen)[1] - IntOfBits(sbin)))>>
    ELSE <<IntOfBits(sbin)>>

\* crow[-components], image[-1][col], image[-1][col - components], 0 where
\* Python raises IndexError (a negative index counts from the end)
ListItem(list, index) ==
    IF index >= 0 /\ index < Len(list) THEN list[index + 1]
    ELSE IF index < 0 /\ -index <= Len(list) THEN list[Len(list) + index + 1]
    ELSE 0

LastRowItem(image, index) ==
    IF image = <<>> THEN 0 ELSE ListItem(image[Len(image)], index)

\* the registers are left as they were
PredictorKept(predictor, col, val) == predictor

\* predictor[col] += val
PredictorAdd(predictor, col, val) ==
    [predictor EXCEPT ![col + 1] = @ + val]

\* the sample at column col once key has been found.  t holds the locals
\* set before the loops: codes (the dict of the tables), indexes (its keys
\* in order), same_tables, components, psv, imagew, imageh
StoreSample(data, d, col, key, t) ==
    With(IF t.same_tables THEN d.table
         ELSE t.indexes[((d.i + 1) % Len(t.indexes)) + 1],
         LAMBDA idx :
      IF key \notin DOMAIN t.codes[idx] THEN [d EXCEPT !.err = "KeyError"]
      ELSE
      With(t.codes[idx][key], LAMBDA dlen :
      With(BuffSlice(data, d, Len(key), Len(key) + dlen), LAMBDA sbin :
      With(AdditionalValue(sbin, dlen), LAMBDA val :
        IF val = <<>> THEN [d EXCEPT !.err = "IndexError"]
        ELSE
        With(IF col < t.components THEN d.predictor[col + 1]
             ELSE GetPredictorValue(t.psv,
                      ListItem(d.crow, -t.components),
                      LastRowItem(d.image, col),
                      LastRowItem(d.image, col - t.components)),
             LAMBDA pred :
          [d EXCEPT
              !.predictor = IF col < t.components
                            THEN PredictorAdd(@, col, val[1])
                            ELSE @,
              !.crow = Append(@, val[1] + pred),
              !.bp = Min(@ + Len(key) + dlen, 8 * d.datapos),
              !.lenbuff = @ - (Len(key) + dlen),
              !.i = IF t.same_tables THEN @ ELSE @ + 1,
              !.table = idx,
              !.trace = Append(@, [matched |-> d.table, read |-> idx,
                                   at |-> d.bp, key |-> key, dlen |-> dlen,
                                   sbin |-> sbin, val |-> val[1],
                                   sample |-> val[1] + pred])])))))

\* one turn of "for col in cols": the buffer is refilled, the keys of the
\* table in use are tried; when none is found nothing is stored
DecodeSample(data, d, col, t) ==
    With(Refill(data, d), LAMBDA r :
    With(MatchingKeys(data, r, t.codes[r.table]), LAMBDA keys :
      IF keys = {} THEN r
      ELSE StoreSample(data, r, col, CHOOSE key \in keys : TRUE, t)))

\* "for col in cols" from column col on
RECURSIVE DecodeRow(_, _, _, _)
DecodeRow(data, d, col, t) ==
    IF col >= t.imagew \/ d.err # "none" THEN d
    ELSE DecodeRow(data, DecodeSample(data, d, col, t), col + 1, t)

\* "for row in rows" from row on: a row of another length than imagew is
\* IOError("Corrupted or invalid CR2 data!")
RECURSIVE DecodeRows(_, _, _, _)
DecodeRows(data, d, row, t) ==
    IF row >= t.imageh \/ d.err # "none" THEN d
    ELSE With(DecodeRow(data, [d EXCEPT !.crow = <<>>], 0, t), LAMBDA r :
           IF r.err # "none" THEN r
           ELSE IF Len(r.crow) # t.imagew
           THEN [r EXCEPT !.err = "CorruptedData"]
           ELSE DecodeRows(data, [r EXCEPT !.image = Append(@, r.crow)],
                           row + 1, t))

\* the result of decompressLosslessJpeg: the exception kind, the array
\* (<<>> when it raised) and the samples as they were decoded
Decompressed(err, img, trace) == [err |-> err, img |-> img, trace |-> trace]

\* np.array(image, dtype=np.uint).flatten('C')
FlattenRows(image) ==
    [k \in 1..SumSeq([r \in 1..Len(image) |-> Len(image[r])]) |->
        image[((k - 1) \div Len(image[1])) + 1]
             [((k - 1) % Len(image[1])) + 1]]

\* the loops and the reordering into slices, once the locals are set
DecodeAndReorder(slices, data, t, junk) ==
    With(DecodeRows(data,
                    DecoderStart(Pow2(t.bits - 1), t.components,
                                 IF t.same_tables THEN <<0, 0>>
                                 ELSE t.indexes[1]),
                    0, t),
         LAMBDA d :
      IF d.err # "none" THEN Decompressed(d.err, <<>>, d.trace)
      ELSE IF SumSeq(SlicesSize(slices)) > t.imagew
      THEN Decompressed("ValueError", <<>>, d.trace)
      ELSE Decompressed("none",
               <<Reassemble([k \in 1..(t.imageh * t.imagew) |->
                                WrapU(FlattenRows(d.image)[k], 16)],
                            t.imageh, t.imagew, SlicesSize(slices), junk)>>,
               d.trace))

\* decompressLosslessJpeg(data, hts) with CR2_SLICES = slices; junk is what
\* np.empty left in the cells that no slice covers
DecompressLosslessJpeg(slices, data, hts, junk) ==
    IF hts.sof = <<>> THEN Decompressed("KeyError", <<>>, <<>>)
    ELSE IF Len(data) < TOKENLEN
    THEN Decompressed("StructError", <<>>, <<>>)
    ELSE IF hts.sof[1].bits < 1 THEN Decompressed("ValueError", <<>>, <<>>)
    ELSE IF hts.sos = <<>> THEN Decompressed("KeyError", <<>>, <<>>)
    ELSE IF slices[2] = 0 THEN Decompressed("AttributeError", <<>>, <<>>)
    ELSE IF hts.dht = <<>> THEN Decompressed("KeyError", <<>>, <<>>)
    ELSE IF <<0, 0>> \notin DOMAIN hts.dht[1].codes
    THEN Decompressed("KeyError", <<>>, <<>>)
    ELSE
    With(hts.dht[1].codes, LAMBDA codes :
      DecodeAndReorder(slices, data,
          [codes |-> codes,
           indexes |-> hts.dht[1].order,
           same_tables |-> \A c \in DOMAIN codes : codes[c] = codes[<<0, 0>>],
           components |-> hts.sof[1].components,
           psv |-> hts.sos[1].psv,
           bits |-> hts.sof[1].bits,
           imagew |-> hts.sof[1].width * hts.sof[1].components,
           imageh |-> hts.sof[1].height],
          junk))

\* decodeRawImage on rawdata, the bytes read from the strip
DecodeRawData(slices, rawdata, junk) ==
    IF PySlice(rawdata, Max(Len(rawdata) - 2, 0), Len(rawdata)) # <<255, 217>>
    THEN Decompressed("InvalidMarker", <<>>, <<>>)
    ELSE IF PySlice(rawdata, 0, 2) # <<255, 216>>
    THEN Decompressed("InvalidMarker", <<>>, <<>>)
    ELSE
    With(WalkMarkers(rawdata, Find255(rawdata, 0),
                     [dht |-> <<>>, sof |-> <<>>, sos |-> <<>>], -1),
         LAMBDA walk :
      IF walk.err # "none" THEN Decompressed(walk.err, <<>>, <<>>)
      ELSE DecompressLosslessJpeg(slices, ImageData(rawdata, walk.start),
                                  walk.hts, junk))

----------------------------------------------------------------------------
(* The external decoder: decodeExternalDecoder and pgm2numpy.  f.ext is    *)
(* "none" when decoder_exec names no file, "pgm" when the decoder writes   *)
(* the full sensor image, "garbage" when its output is no PGM.             *)

HasExternalDecoder(s) == s.decoder_exec # "none"

\* the sensor image: the raster in the slice layout the camera wrote
SensorImage(f) ==
    Reassemble(Flattened(f), f.raster.h, f.raster.w, f.layout, 0)

DecodeExternalDecoder(s, f) ==
    IF ~HasExternalDecoder(s) THEN Decoded(s, "none", <<>>)
    ELSE IF s.decoder_exec = "pgm" THEN Decoded(s, "none", <<SensorImage(f)>>)
    ELSE Decoded(s, "none", <<>>)

----------------------------------------------------------------------------
(* CR2Image.load                                                           *)

\* what load() leaves behind: the instance, the exception kind, the decoded
\* full-sensor array (<<>> if none) and the returned image (<<>> for None)
Loaded(s, err, uncropped, ret) ==
    [self |-> s, err |-> err, uncropped |-> uncropped, ret |-> ret]

\* load() without the crop: the decoded array as it is
Uncropped(uncropped, sensor) == uncropped

\* uncropped[tbord:bbord, lbord:rbord].copy()
Crop(uncropped, sensor) ==
    With(GetImageBorders(sensor), LAMBDA border :
      Slice2D(uncropped, border[4], border[2], border[1], border[3]))

\* load() from "if ifd == 3:" on
LoadFrame(s, f, ifd, full_frame, native_decoder, junk) ==
    IF ifd = 3
    THEN With(IF native_decoder \/ ~HasExternalDecoder(s)
              THEN DecodeRawImage(s, f, junk)
              ELSE DecodeExternalDecoder(s, f),
              LAMBDA d :
           IF d.err # "none" THEN Loaded(d.self, d.err, <<>>, <<>>)
           ELSE IF d.img = <<>> THEN Loaded(d.self, "none", <<>>, <<>>)
           ELSE IF full_frame THEN Loaded(d.self, "none", d.img, d.img)
           ELSE Loaded(d.self, "none", d.img,
                       <<Crop(d.img[1], d.self.Sensor[1])>>))
    ELSE IF ifd = 1 THEN Loaded(s, "NotImplemented", <<>>, <<>>)
    ELSE Loaded(s, "UnboundLocalError", <<>>, <<>>)

\* fname: <<>> for None, <<name>> else.  The error raised when the instance
\* is not open and no name is given, SyntaxError("unknown file name"), is
\* the kind "NotOpen".
Load(s, f, fname, ifd, full_frame, native_decoder, junk) ==
    IF ~s.isOpened
    THEN IF fname = <<>>
         THEN Loaded(s, "NotOpen", <<>>, <<>>)
         ELSE With(Open([s EXCEPT !.filename = fname], f), LAMBDA r :
                IF r.err # "none" THEN Loaded(r.self, r.err, <<>>, <<>>)
                ELSE LoadFrame(r.self, f, ifd, full_frame,
                               native_decoder, junk))
    ELSE LoadFrame(s, f, ifd, full_frame, native_decoder, junk)

----------------------------------------------------------------------------
(* CR2Image.close                                                          *)

\* the attributes close() deletes, in its order
Deleted == <<"CR2_SLICES", "IFD3", "IFD0", "Sensor", "MAKERNOTES", "EXIF">>

\* del self.<a> for the attributes from the i-th on, then self.fp.close()
RECURSIVE CloseFrom(_, _)
CloseFrom(s, i) ==
    IF i > Len(Deleted)
    THEN IF s.fp = "unset"
         THEN [self |-> s, err |-> "AttributeError"]
         ELSE [self |-> [s EXCEPT !.fp = "closed", !.isOpened = FALSE],
               err |-> "none"]
    ELSE IF s[Deleted[i]] = <<>>
    THEN [self |-> s, err |-> "AttributeError"]
    ELSE CloseFrom([s EXCEPT ![Deleted[i]] = <<>>], i + 1)

Close(s) == CloseFrom(s, 1)

----------------------------------------------------------------------------
(* The input files                                                         *)

FileName == "image.cr2"

\* where the structures of an input file lie
Ifd0At == ReconstructDataFromString(II, <<16, 0, 0, 0>>)
ExifAt == Ifd0At + 2 + 12 * 2 + 4
ExposureAt == ExifAt + 2 + 12 * 2 + 4
MakerNoteAt == ExposureAt + 8
SensorInfoAt == MakerNoteAt + 2 + 12 * 1 + 4
SliceInfoAt == SensorInfoAt + 2 * 17
Ifd3At == ReconstructDataFromString(II, <<0, 16, 0, 0>>)
StripFileAt == Ifd3At + 2 + 12 * 3 + 4

Entry(tag, type, count, valoff) ==
    [tag |-> tag, type |-> type, count |-> count, valoff |-> valoff]

\* the SENSOR_INFO array of a sensor of the given size and borders
SensorInfo(width, height, left, top, right, bottom) ==
    <<34, width, height, 1, 1, left, top, right, bottom,
      0, 0, left, bottom, 0, 0, 0, 0>>

\* the CR2_SLICE value (count, width, last_width) of a slice layout
SliceTag(layout) ==
    <<Len(layout) - 1, layout[1], layout[Len(layout)]>>

\* a CR2 file: the header bytes, the tags that are present (the others of
\* the chain IFD0 -> EXIF -> MakerNote -> SENSOR_INFO, IFD3 are left out),
\* the sensor array, the raster size, the slice layout, the strip markers
\* and the external decoder
MakeFile(header, present, sensorinfo, h, w, layout, soi, eoi, ext) ==
    LET keep(es) == SelectSeq(es, LAMBDA e : e.tag = IMAGE_WIDTH
                                             \/ e.tag = EXPOSURE_TIME
                                             \/ e.tag \in present)
        striplen == 2 * h * w + TOKENLEN + 4
    IN  [header |-> header,
         ifd |-> (Ifd0At :> keep(<<Entry(IMAGE_WIDTH, 3, 1, w),
                                   Entry(EXIF, 4, 1, ExifAt)>>))
              @@ (ExifAt :> keep(<<Entry(EXPOSURE_TIME, 5, 1, ExposureAt),
                                   Entry(MAKERNOTE, 7, 2 * 17 + 18,
                                         MakerNoteAt)>>))
              @@ (MakerNoteAt :> keep(<<Entry(SENSOR_INFO, 3, 17,
                                              SensorInfoAt)>>))
              @@ (Ifd3At :> keep(<<Entry(STRIP_OFFSET, 4, 1, StripFileAt),
                                   Entry(STRIP_BYTES_COUNT, 4, 1, striplen),
                                   Entry(CR2_SLICE, 3, 3, SliceInfoAt)>>)),
         data |-> (ExposureAt :> <<<<1, 250>>>>)
               @@ (SensorInfoAt :> sensorinfo)
               @@ (SliceInfoAt :> SliceTag(layout)),
         raster |-> [h |-> h, w |-> w],
         layout |-> layout,
         strip |-> [at |-> StripFileAt, len |-> striplen,
                    soi |-> soi, eoi |-> eoi],
         size |-> StripFileAt + striplen,
         ext |-> ext,
         after |-> [at |-> Ifd3At + 2 + 12 * 3, bytes |-> <<>>]]

AllTags ==
    {EXIF, MAKERNOTE, SENSOR_INFO, STRIP_OFFSET, STRIP_BYTES_COUNT, CR2_SLICE}

\* a little-endian and a big-endian CR2 header, and one of neither order
HeaderII == <<73, 73, 42, 0, 16, 0, 0, 0, 67, 82, 2, 0, 0, 16, 0, 0>>
HeaderMM == <<77, 77, 0, 42, 0, 0, 0, 16, 67, 82, 2, 0, 0, 0, 16, 0>>
HeaderXX == <<88, 88, 42, 0, 16, 0, 0, 0, 67, 82, 2, 0, 0, 16, 0, 0>>

\* a little-endian CR2 header whose first IFD offset is the place of the
\* EXIF sub-IFD of the input files
HeaderToExif == <<73, 73, 42, 0, ExifAt, 0, 0, 0, 67, 82, 2, 0, 0, 16, 0, 0>>

\* the file f with the bytes of a header right after the entries of its raw
\* IFD, where open() leaves the read cursor, and its strip after them
WithHeaderAfter(f, header) ==
    [f EXCEPT
        !.after.bytes = header,
        !.ifd[Ifd3At] =
            [k \in 1..Len(@) |->
                IF @[k].tag = STRIP_OFFSET
                THEN [@[k] EXCEPT !.valoff = @ + Len(header)]
                ELSE @[k]],
        !.strip.at = @ + Len(header),
        !.size = @ + Len(header)]

\* the two-slice layout of a raster of width w
TwoSlices(w) == <<(w + 1) \div 2, w - ((w + 1) \div 2)>>

\* the files of the life-cycle specification: any subset of the required
\* and optional tags, on a 4 x 4 sensor with borders (1, 1, 4, 3); with
\* every tag, also the strips that lack a marker and the CR2_SLICE tag of
\* count 0
LifeFiles ==
    {MakeFile(hd, present, SensorInfo(4, 4, 1, 1, 4, 3), 4, 4, <<2, 2>>,
              TRUE, TRUE, ext) :
        hd \in {HeaderII, HeaderMM, HeaderXX},
        present \in SUBSET AllTags,
        ext \in {"none", "pgm", "garbage"}}
    \cup
    {MakeFile(HeaderII, AllTags, SensorInfo(4, 4, 1, 1, 4, 3), 4, 4, <<2, 2>>,
              soi, eoi, ext) :
        soi \in BOOLEAN, eoi \in BOOLEAN,
        ext \in {"none", "pgm", "garbage"}}
    \cup
    {MakeFile(HeaderII, AllTags, SensorInfo(4, 4, 1, 1, 4, 3), 4, 4, <<4>>,
              TRUE, TRUE, ext) :
        ext \in {"none", "pgm", "garbage"}}
    \cup
    {WithHeaderAfter(MakeFile(HeaderII, AllTags, SensorInfo(4, 4, 1, 1, 4, 3),
                              4, 4, <<2, 2>>, TRUE, TRUE, "none"), hd) :
        hd \in {HeaderII, HeaderToExif}}

\* the files of the header specification: every tag present, the header
\* bytes drawn from the values that matter at each place
HeaderBytes ==
    {<<b0, b1, m[1], m[2]>> \o o0 \o <<c[1], c[2], 2, 0>> \o o3 :
        b0 \in {73, 77}, b1 \in {73, 77, 88},
        m \in {<<42, 0>>, <<0, 42>>, <<42, 42>>, <<0, 0>>},
        c \in {<<67, 82>>, <<67, 88>>, <<88, 82>>},
        o0 \in {<<16, 0, 0, 0>>, <<0, 0, 0, 16>>, <<16, 0, 16, 0>>},
        o3 \in {<<x, y, z, t>> : x \in {0}, y \in {0, 16},
                                 z \in {0, 16}, t \in {0, 16}}}

HeaderFiles ==
    {MakeFile(hd, AllTags, SensorInfo(4, 4, 1, 1, 4, 3), 4, 4, <<2, 2>>,
              TRUE, TRUE, "none") : hd \in HeaderBytes}

\* the files of the crop specification: every sensor with
\* 0 <= left < right <= width and 0 <= top < bottom <= height, and every
\* raster size up to the sensor's
BorderPairs == {p \in (0..MaxDim) \X (0..MaxDim) : p[1] < p[2]}

CropFiles ==
    {MakeFile(HeaderII, AllTags,
              SensorInfo(MaxDim, MaxDim, lr[1], tb[1], lr[2], tb[2]),
              h, w, TwoSlices(w), TRUE, TRUE, "pgm") :
        lr \in BorderPairs, tb \in BorderPairs,
        h \in 1..MaxDim, w \in 1..MaxDim}

----------------------------------------------------------------------------
(* The instance and the calls on it                                        *)

\* the attributes __init__ sets before it opens the file
NewInstance(f) ==
    [version |-> <<0, 0>>, isOpened |-> FALSE, decoder_exec |-> f.ext,
     filename |-> <<>>, fp |-> "unset", fppos |-> 0,
     byteorder |-> <<>>, mode |-> <<>>,
     IFD0 |-> <<>>, EXIF |-> <<>>, MAKERNOTES |-> <<>>, Sensor |-> <<>>,
     size |-> <<>>, IFD3 |-> <<>>, CR2_SLICES |-> <<>>]

\* the record of a call: the method, the arguments of load(), whether the
\* instance was open before, and what the call left behind
Called(op, fname, ifd, full_frame, native_decoder, was, err, stage, o0, o3, uncropped, ret) ==
    [op |-> op, fname |-> fname, ifd |-> ifd, full_frame |-> full_frame,
     native_decoder |-> native_decoder, wasOpened |-> was,
     err |-> err, stage |-> stage, ifd0_offset |-> o0, ifd3_offset |-> o3,
     uncropped |-> uncropped, ret |-> ret]

NoCall ==
    Called("none", <<>>, 0, FALSE, FALSE, FALSE, "none", "none", -1, -1,
           <<>>, <<>>)

\* CR2Image(fname, ...): with a file name the constructor opens the file
\* and calls open(); an exception leaves the caller without the instance
Construct(fname) ==
    /\ phase = "new"
    /\ IF fname = <<>>
       THEN /\ self' = NewInstance(file)
            /\ phase' = "live"
            /\ call' = Called("init", fname, 0, FALSE, FALSE, FALSE, "none",
                              "none", -1, -1, <<>>, <<>>)
       ELSE \E r \in {Open([NewInstance(file) EXCEPT !.filename = fname,
                                                     !.fp = "open"],
                           file)} :
                /\ self' = r.self
                /\ phase' = IF r.err = "none" THEN "live" ELSE "failed"
                /\ call' = Called("init", fname, 0, FALSE, FALSE, FALSE,
                                  r.err, r.stage, r.ifd0_offset,
                                  r.ifd3_offset, <<>>, <<>>)
    /\ UNCHANGED file

\* open() called by the user on the instance
OpenCall ==
    /\ phase = "live"
    /\ \E r \in {Open(self, file)} :
           /\ self' = r.self
           /\ call' = Called("open", <<>>, 0, FALSE, FALSE, self.isOpened,
                             r.err, r.stage, r.ifd0_offset, r.ifd3_offset,
                             <<>>, <<>>)
    /\ UNCHANGED <<file, phase>>

\* what np.empty may have left in the cells of the output that no slice
\* covers: any sample value (two of them here); nothing is left over when
\* the slices cover the raster
JunkValues(s, f) ==
    IF s.CR2_SLICES # <<>>
       /\ SumSeq(SlicesSize(s.CR2_SLICES[1])) < f.raster.w
    THEN {0, 65535}
    ELSE {0}

\* the call before was a load() with these arguments on the opened
\* instance that returned an array
LoadedBefore(fname, ifd, full_frame, native_decoder) ==
    /\ self.isOpened
    /\ call.op = "load" /\ call.err = "none" /\ call.ret # <<>>
    /\ call.fname = fname /\ call.ifd = ifd
    /\ call.full_frame = full_frame
    /\ call.native_decoder = native_decoder

LoadCall(fname, ifd, full_frame, native_decoder) ==
    /\ phase = "live"
    /\ \E junk \in JunkValues(self, file) :
       \E r \in {Load(self, file, fname, ifd, full_frame, native_decoder,
                      junk)} :
            /\ self' = r.self
            /\ call' = Called("load", fname, ifd, full_frame, native_decoder,
                              self.isOpened, r.err, "none", -1, -1,
                              r.uncropped, r.ret)
                       @@ [again |-> LoadedBefore(fname, ifd, full_frame,
                                                  native_decoder)]
    /\ UNCHANGED <<file, phase>>

CloseCall ==
    /\ phase = "live"
    /\ \E r \in {Close(self)} :
           /\ self' = r.self
           /\ call' = Called("close", <<>>, 0, FALSE, FALSE, self.isOpened,
                             r.err, "none", -1, -1, <<>>, <<>>)
    /\ UNCHANGED <<file, phase>>

\* __del__: close(), whose exception is not propagated
Discard ==
    /\ phase \in {"live", "failed"}
    /\ \E r \in {Close(self)} :
           /\ self' = r.self
           /\ call' = Called("del", <<>>, 0, FALSE, FALSE, self.isOpened,
                             r.err, "none", -1, -1, <<>>, <<>>)
    /\ phase' = "discarded"
    /\ UNCHANGED file

FileNames == {<<>>, <<FileName>>}

Next ==
    \/ \E fname \in FileNames : Construct(fname)
    \/ OpenCall
    \/ \E fname \in FileNames, ifd \in {1, 2, 3},
          full_frame \in BOOLEAN, native_decoder \in BOOLEAN :
            LoadCall(fname, ifd, full_frame, native_decoder)
    \/ CloseCall
    \/ Discard

InitWith(files) ==
    /\ file \in files
    /\ self = NewInstance(file)
    /\ phase = "new"
    /\ call = NoCall

\* the life cycle of an instance over files with any subset of the tags
Init == InitWith(LifeFiles)
Spec == Init /\ [][Next]_vars

\* construction, open() and destruction over files with any header
InitHeader == InitWith(HeaderFiles)
NextHeader ==
    \/ \E fname \in FileNames : Construct(fname)
    \/ OpenCall
    \/ Discard
SpecHeader == InitHeader /\ [][NextHeader]_vars

\* a call of a function of the module: its name, its arguments and, once
\* it has returned, its result
Pending(op, args) == [op |-> op, args |-> args, ret |-> <<>>]

InitCalls(calls) ==
    /\ file = <<>>
    /\ self = <<>>
    /\ phase = "called"
    /\ call \in calls

\* getPredictorValue over every selection value and small signed neighbours
PredictorCalls ==
    {Pending("getPredictorValue", <<psv, l, t, tl>>) :
        psv \in 0..MaxPsv, l \in -MaxPixel..MaxPixel,
        t \in -MaxPixel..MaxPixel, tl \in -MaxPixel..MaxPixel}

GetPredictorValueCall ==
    /\ phase = "called"
    /\ call.op = "getPredictorValue"
    /\ call' = [call EXCEPT !.ret = <<GetPredictorValue(call.args[1],
                                                        call.args[2],
                                                        call.args[3],
                                                        call.args[4])>>]
    /\ phase' = "returned"
    /\ UNCHANGED <<file, self>>

InitPredictor == InitCalls(PredictorCalls)
NextPredictor == GetPredictorValueCall
SpecPredictor == InitPredictor /\ [][NextPredictor]_vars

\* the bytes of one table of a DHT segment: the class and destination
\* byte, the 16 counts (counts gives the first of them), the symbols
DhtTable(index, counts, symbols) ==
    <<index>>
    \o [i \in 1..MAX_HUFFMAN_BITS |->
            IF i <= Len(counts) THEN counts[i] ELSE 0]
    \o symbols

\* the DHT segment of the given tables: marker, length, tables
DhtSegment(tables) ==
    <<255, 196, (2 + Len(tables)) \div 256, (2 + Len(tables)) % 256>>
    \o tables

\* HuffmanTable over the segments of one table with any counts of codes of
\* 1..MaxCodeLen bits, the symbols counted up from 0 or down from 16
TableCalls ==
    {Pending("HuffmanTable",
             <<DhtSegment(DhtTable(0, counts,
                   [k \in 1..SumSeq(counts) |->
                       IF up THEN k - 1 ELSE 17 - k]))>>) :
        counts \in [1..MaxCodeLen -> 0..MaxCount], up \in BOOLEAN}

HuffmanTableCall ==
    /\ phase = "called"
    /\ call.op = "HuffmanTable"
    /\ call' = [call EXCEPT !.ret = <<HuffmanTable(call.args[1])>>]
    /\ phase' = "returned"
    /\ UNCHANGED <<file, self>>

InitTable == InitCalls(TableCalls)
NextTable == HuffmanTableCall
SpecTable == InitTable /\ [][NextTable]_vars

\* the SOF3 segment of a frame: marker, length, precision, height, width,
\* components, then the id, sampling and table bytes of each component
SofSegment(bits, height, width, components) ==
    <<255, 195, 0, 8 + 3 * components, bits, height \div 256, height % 256,
      width \div 256, width % 256, components>>
    \o [k \in 1..(3 * components) |->
            IF k % 3 = 1 THEN (k + 2) \div 3 ELSE IF k % 3 = 2 THEN 17 ELSE 0]

\* the SOS segment of a scan: marker, length, components, the id and table
\* bytes of each component, the predictor, the end of selection, the shift
SosSegment(components, psv) ==
    <<255, 218, 0, 6 + 2 * components, components>>
    \o [k \in 1..(2 * components) |->
            IF k % 2 = 1 THEN (k + 1) \div 2 ELSE 0]
    \o <<psv, 0, 0>>

\* the first n bytes of a stream of bits, zero bits after the last
BytesOfBits(bits, n) ==
    [j \in 1..n |->
        SumSeq([k \in 1..8 |->
            IF 8 * (j - 1) + k <= Len(bits)
            THEN bits[8 * (j - 1) + k] * Pow2(8 - k) ELSE 0])]

\* the bytes as an encoder stores them: a 00 after every FF byte (at the
\* places at, the last of them first)
RECURSIVE StuffedAt(_, _)
StuffedAt(bytes, at) ==
    IF at = {} THEN bytes
    ELSE With(CHOOSE j \in at : \A k \in at : k <= j, LAMBDA j :
           StuffedAt(SubSeq(bytes, 1, j) \o <<0>>
                     \o SubSeq(bytes, j + 1, Len(bytes)),
                     at \ {j}))

Stuffed(bytes) == StuffedAt(bytes, {j \in 1..Len(bytes) : bytes[j] = 255})

\* a stream: the DHT tables, the frame and scan parameters, the payload
\* (the entropy-coded bytes as they are in the file)
Stream(tables, bits, height, width, components, psv, payload) ==
    [tables |-> tables, bits |-> bits, height |-> height, width |-> width,
     components |-> components, psv |-> psv, payload |-> payload]

\* the bytes of the strip of a stream, from SOI to EOI
JpegStrip(st) ==
    <<255, 216>>
    \o DhtSegment(st.tables)
    \o SofSegment(st.bits, st.height, st.width, st.components)
    \o SosSegment(st.components, st.psv)
    \o st.payload
    \o <<255, 217>>

\* CR2_SLICES of a frame of imagew columns in two slices
TwoSlicesOf(imagew) ==
    <<0, 1, 0, imagew \div 2, imagew - (imagew \div 2)>>

\* decodeRawImage on the strip of the stream st; kind names the family of
\* streams st was taken from, about what its payload was made of.  The two
\* slices cover the frame, so that no cell of the output is left as
\* np.empty made it.
JpegCall(kind, about, st) ==
    Pending("decodeRawImage",
            <<kind, TwoSlicesOf(st.width * st.components), st, about>>)

\* the table with the single code 0 for the symbol s
OneCode(s) == DhtTable(0, <<1>>, <<s>>)

\* the table with the codes 0 and 1 for the symbols 0 and 1
TwoCodes == DhtTable(0, <<2>>, <<0, 1>>)

ZeroBytes(n) == [k \in 1..n |-> 0]

\* streams of one row whose payload starts with any bytes out of 00, 01
\* and FF, at most MaxPayload of them, followed by a token of zero bytes
StuffedCalls ==
    {JpegCall("stuffed", <<>>,
              Stream(TwoCodes, 8, 1, MaxDim, 1, 1,
                     first \o ZeroBytes(TOKENLEN))) :
        first \in UNION {[1..n -> {0, 1, 255}] : n \in 0..MaxPayload}}

\* streams of h rows of width samples of each of 1 or 2 components, of 8
\* or 14 bits, with the single code 0 for the symbol 0, psv 1 and a payload
\* of zero bits: the bytes that hold one bit per sample, alone or followed
\* by a token of zero bytes
ZeroDeltaCalls ==
    {JpegCall("zero", <<>>,
              Stream(OneCode(0), bits, h, width, components, 1,
                     ZeroBytes(((h * width * components + 7) \div 8) + more))) :
        h \in 1..MaxDim, width \in 1..2, components \in 1..2,
        bits \in {8, 14}, more \in {0, TOKENLEN}}

\* a field of s bits: the first of them, the last, the ones between
Field(s, top, low, last) ==
    [k \in 1..s |-> IF k = 1 THEN top ELSE IF k = s THEN last ELSE low]

\* the bits of samples, n times
Repeated(samples, n) ==
    [k \in 1..(n * Len(samples)) |-> samples[((k - 1) % Len(samples)) + 1]]

\* the payload of the given bits, stuffed, followed by a token of zeros
PayloadOf(bits) ==
    Stuffed(BytesOfBits(bits, (Len(bits) + 7) \div 8)) \o ZeroBytes(TOKENLEN)

\* streams of one row of two samples with the single code 0 for a symbol s
\* of 0..16; each sample is the code and a field of s bits
FieldCalls ==
    {JpegCall("field", [s |-> s, field |-> field],
              Stream(OneCode(s), 14, 1, 2, 1, 1,
                     PayloadOf(Repeated(<<0>> \o field, 2)))) :
        <<s, field>> \in
            {<<s, Field(s, f[1], f[2], f[3])>> :
                s \in 0..MAX_HUFFMAN_BITS, f \in [1..3 -> {0, 1}]}}

\* the symbols of the codes 0 and 10 of the second table of a stream of
\* two tables: the first table has 0 and 1
SecondTables == {<<0, 1>>, <<1, 0>>, <<1>>}

\* streams of one row of three samples with two tables, of destination 0
\* (the codes 0 and 10 for the symbols 0 and 1) and of destination 1, in
\* either order in the DHT segment; the payload starts with any six bits
TwoTableCalls ==
    {JpegCall("tables",
              [order |-> IF swap THEN <<<<1, 0>>, <<0, 0>>>>
                         ELSE <<<<0, 0>>, <<1, 0>>>>,
               distinct |-> symbols # <<0, 1>>],
              Stream(IF swap
                     THEN DhtTable(1, <<1, Len(symbols) - 1>>, symbols)
                          \o DhtTable(0, <<1, 1>>, <<0, 1>>)
                     ELSE DhtTable(0, <<1, 1>>, <<0, 1>>)
                          \o DhtTable(1, <<1, Len(symbols) - 1>>, symbols),
                     8, 1, 3, 1, 1,
                     <<4 * first>> \o ZeroBytes(TOKENLEN))) :
        swap \in BOOLEAN, symbols \in SecondTables, first \in 0..63}

\* the bits of one token: lead samples of 3 bits (the code 10 and the
\* field 1), then samples of 16 bits (the code 0 and the field 1 and 14
\* zeros), the last of them cut where the token ends
ShortBits(lead) ==
    [k \in 1..(8 * TOKENLEN) |->
        IF k <= 3 * lead THEN <<1, 0, 1>>[((k - 1) % 3) + 1]
        ELSE IF (k - 3 * lead - 1) % 16 = 1 THEN 1 ELSE 0]

\* the rasters of 64, 65, 66 and 69 samples
ShortRasters == {<<8, 8>>, <<5, 13>>, <<6, 11>>, <<3, 23>>}

\* streams whose payload is one token and no more, with the codes 0 and 10
\* for the symbols 15 and 1, over rasters that need that many bits or more
ShortCalls ==
    {JpegCall("short", [lead |-> lead],
              Stream(DhtTable(0, <<1, 1>>, <<15, 1>>), 14, hw[1], hw[2], 1, 1,
                     BytesOfBits(ShortBits(lead), TOKENLEN))) :
        lead \in 0..MaxLead, hw \in ShortRasters}

\* the bits of the differences deltas, each of -1, 0 or 1, with the codes 0
\* and 10 for the symbols 0 and 1
RECURSIVE DeltaBits(_, _)
DeltaBits(deltas, k) ==
    IF k > Len(deltas) THEN <<>>
    ELSE (CASE deltas[k] = 0 -> <<0>>
            [] deltas[k] = 1 -> <<1, 0, 1>>
            [] OTHER -> <<1, 0, 0>>)
         \o DeltaBits(deltas, k + 1)

\* streams of two rows of two samples of each of 1 or 2 components, of 8
\* bits, with any predictor 1..7; the differences repeat any four of -1, 0
\* and 1
PredictCalls ==
    {JpegCall("predict", [deltas |-> Repeated(four, components)],
              Stream(DhtTable(0, <<1, 1>>, <<0, 1>>), 8, 2, 2, components, psv,
                     PayloadOf(DeltaBits(Repeated(four, components), 1)))) :
        four \in [1..4 -> {-1, 0, 1}], components \in 1..2, psv \in 1..7}

JpegCalls ==
    StuffedCalls \cup ZeroDeltaCalls \cup FieldCalls \cup TwoTableCalls
    \cup ShortCalls \cup PredictCalls

DecodeRawImageCall ==
    /\ phase = "called"
    /\ call.op = "decodeRawImage"
    /\ call' = [call EXCEPT !.ret =
                  <<DecodeRawData(call.args[2], JpegStrip(call.args[3]), 0)>>]
    /\ phase' = "returned"
    /\ UNCHANGED <<file, self>>

InitJpeg == InitCalls(JpegCalls)
NextJpeg == DecodeRawImageCall
SpecJpeg == InitJpeg /\ [][NextJpeg]_vars

\* decodeExternalDecoder step by step, with the child process it starts.
\* The child is a program: the pipes it writes one unit to, in order, before
\* it exits with the status exit; kind is what its whole output is ("pgm"
\* for a well-formed PGM, "garbage" for anything else).  A pipe holds at
\* most PipeCap units; a write to a full pipe waits.
Programs == UNION {[1..n -> {"stdout", "stderr"}] : n \in 0..MaxWrites}

ChildCalls ==
    {Pending("decodeExternalDecoder", <<program, exit, kind>>)
        @@ [pc |-> "Popen", child |-> "none", program |-> program,
            stdout |-> 0, stderr |-> 0, returncode |-> <<>>,
            logged |-> FALSE, pgm_data |-> 0, err |-> "none"] :
        program \in Programs, exit \in {0, 1}, kind \in {"pgm", "garbage"}}

\* pgm2numpy(pgm_data): the array, None (<<>>) when the data are no PGM
Pgm2Numpy(kind) == IF kind = "pgm" THEN <<"image">> ELSE <<>>

\* p = subprocess.Popen(..., stdout=PIPE, stderr=PIPE): the child runs;
\* p.returncode is None until poll() or wait() is called
Popen ==
    /\ phase = "called" /\ call.op = "decodeExternalDecoder"
    /\ call.pc = "Popen"
    /\ call' = [call EXCEPT !.pc = "returncode", !.child = "running",
                            !.returncode = <<>>]
    /\ UNCHANGED <<file, self, phase>>

\* if p.returncode is not None: log the error with p.stderr.read()
TestReturncode ==
    /\ phase = "called" /\ call.op = "decodeExternalDecoder"
    /\ call.pc = "returncode"
    /\ call' = [call EXCEPT !.pc = "read",
                            !.logged = (call.returncode # <<>>)]
    /\ UNCHANGED <<file, self, phase>>

\* the child writes the next unit of its program when the pipe has room
ChildWrite ==
    /\ phase = "called" /\ call.op = "decodeExternalDecoder"
    /\ call.child = "running" /\ call.program # <<>>
    /\ call[Head(call.program)] < PipeCap
    /\ call' = [call EXCEPT ![Head(call.program)] = @ + 1,
                            !.program = Tail(@)]
    /\ UNCHANGED <<file, self, phase>>

\* the child has written everything: it exits and its pipe ends are closed
ChildExit ==
    /\ phase = "called" /\ call.op = "decodeExternalDecoder"
    /\ call.child = "running" /\ call.program = <<>>
    /\ call' = [call EXCEPT !.child = "exited"]
    /\ UNCHANGED <<file, self, phase>>

\* pgm_data = p.stdout.read(): what is in the pipe is taken
StdoutRead ==
    /\ phase = "called" /\ call.op = "decodeExternalDecoder"
    /\ call.pc = "read" /\ call.stdout > 0
    /\ call' = [call EXCEPT !.pgm_data = @ + call.stdout, !.stdout = 0]
    /\ UNCHANGED <<file, self, phase>>

\* p.stdout.read() meets the end of file; return pgm2numpy(pgm_data)
StdoutEof ==
    /\ phase = "called" /\ call.op = "decodeExternalDecoder"
    /\ call.pc = "read" /\ call.stdout = 0 /\ call.child = "exited"
    /\ call' = [call EXCEPT !.pc = "returned",
                            !.ret = Pgm2Numpy(call.args[3])]
    /\ phase' = "returned"
    /\ UNCHANGED <<file, self>>

InitChild == InitCalls(ChildCalls)
NextChild ==
    \/ Popen
    \/ TestReturncode
    \/ ChildWrite
    \/ ChildExit
    \/ StdoutRead
    \/ StdoutEof
SpecChild == InitChild /\ [][NextChild]_vars

\* the n bytes of the integer x in the byte order
FieldBytes(byteorder, x, n) ==
    [j \in 1..n |->
        IF byteorder = II THEN (x \div Pow2(8 * (j - 1))) % 256
        ELSE (x \div Pow2(8 * (n - j))) % 256]

\* the 12 bytes of an entry whose value field holds the bytes field
EntryBytes(byteorder, tag, type, count, field) ==
    FieldBytes(byteorder, tag, 2) \o FieldBytes(byteorder, type, 2)
    \o FieldBytes(byteorder, count, 4) \o field

\* the kinds of entries of the IFD files, as <<type, count, inline>>: with
\* inline the value field holds the bytes 1, 2, 3, 4, else the offset of
\* the data area
EntryKinds ==
    {<<3, 1, TRUE>>, <<3, 2, TRUE>>, <<1, 4, TRUE>>, <<4, 1, TRUE>>,
     <<3, 3, FALSE>>, <<4, 2, FALSE>>, <<5, 1, FALSE>>, <<2, 3, FALSE>>,
     <<7, 0, FALSE>>, <<7, 1, FALSE>>, <<7, 4, FALSE>>}

\* the data area of the IFD files
DataArea == <<5, 0, 6, 0, 7, 0, 8, 0>>

\* the bytes of the entries es (each a tag and a kind) from the i-th on,
\* the data area at offset area
RECURSIVE EntriesBytes(_, _, _, _)
EntriesBytes(byteorder, es, i, area) ==
    IF i > Len(es) THEN <<>>
    ELSE EntryBytes(byteorder, es[i][1], es[i][2][1], es[i][2][2],
                    IF es[i][2][3] THEN <<1, 2, 3, 4>>
                    ELSE FieldBytes(byteorder, area, 4))
         \o EntriesBytes(byteorder, es, i + 1, area)

\* a file of lead zero bytes, then an IFD of the entries es, then the data
\* area
IfdFile(byteorder, lead, es) ==
    ZeroBytes(lead) \o FieldBytes(byteorder, Len(es), 2)
    \o EntriesBytes(byteorder, es, 1, lead + 2 + 12 * Len(es))
    \o DataArea

\* _readIfd over the files of 1..MaxEntries entries of the tags 1 and 2 (the
\* first has tag 1), of any kind, in either byte order, at offset 0 or 4
IfdCalls ==
    {Pending("_readIfd", <<IfdFile(byteorder, lead, es), byteorder, lead>>) :
        byteorder \in {II, MM}, lead \in {0, 4},
        es \in UNION {{es \in [1..n -> {1, 2} \X EntryKinds] : es[1][1] = 1} :
                         n \in 1..MaxEntries}}

ReadIfdCall ==
    /\ phase = "called"
    /\ call.op = "_readIfd"
    /\ call' = [call EXCEPT !.ret =
                  <<ReadIfdBytes(call.args[1], call.args[2], call.args[3])>>]
    /\ phase' = "returned"
    /\ UNCHANGED <<file, self>>

InitIfd == InitCalls(IfdCalls)
NextIfd == ReadIfdCall
SpecIfd == InitIfd /\ [][NextIfd]_vars

\* construction and load() of the raw frame over files with any sensor
\* borders and raster size
InitCrop == InitWith(CropFiles)
NextCrop ==
    \/ Construct(<<FileName>>)
    \/ \E full_frame \in BOOLEAN, native_decoder \in BOOLEAN :
            LoadCall(<<>>, 3, full_frame, native_decoder)
SpecCrop == InitCrop /\ [][NextCrop]_vars

----------------------------------------------------------------------------
(* The properties                                                          *)

\* the call was CR2Image(fname): open() read the header from the start of
\* the file
OpenedFromStart == call.op = "init" /\ call.fname # <<>>

\* open() went past the header check
PassedHeader ==
    call.op \in {"init", "open"}
    /\ call.stage \notin {"none", "read", "endian", "header"}

\* C1: open() fails with UnknownEndian when bytes 0..2 are neither "II" nor
\* "MM", with NotCR2 when bytes 2..4 are not 0x002A in the declared byte
\* order or bytes 8..10 are not "CR", and passes the header check for every
\* other header, little-endian (II 2A 00) and big-endian (MM 00 2A) alike.
C1_HeaderDecision ==
    OpenedFromStart =>
        LET header == file.header
            order == SubSeq(header, 1, 2)
            magic == IF order = II
                     THEN header[3] + 256 * header[4]
                     ELSE 256 * header[3] + header[4]
        IN  IF order # II /\ order # MM
            THEN call.err = "UnknownEndian"
            ELSE IF magic # 42 \/ SubSeq(header, 9, 10) # CR
            THEN call.err = "NotCR2"
            ELSE PassedHeader

\* C2: for every accepted header, ifd0_offset is the 32-bit unsigned
\* integer of header bytes 4..7 and ifd3_offset that of header bytes
\* 12..15, each in the declared byte order, all four bytes contributing.
C2_OffsetsFromHeader ==
    (OpenedFromStart /\ PassedHeader) =>
        LET header == file.header
            U32(b) == IF SubSeq(header, 1, 2) = II
                      THEN b[1] + 256 * b[2] + 65536 * b[3] + 16777216 * b[4]
                      ELSE 16777216 * b[1] + 65536 * b[2] + 256 * b[3] + b[4]
        IN  /\ call.ifd0_offset = U32(SubSeq(header, 5, 8))
            /\ call.ifd3_offset = U32(SubSeq(header, 13, 16))

\* open() read IFD0 and found no EXIF tag in it
MissingExif ==
    /\ PassedHeader
    /\ self.IFD0 # <<>>
    /\ EXIF \notin DOMAIN self.IFD0[1]

\* open() read the EXIF sub-IFD and found no MAKERNOTE tag in it
MissingMakernote ==
    /\ PassedHeader
    /\ call.stage # "ifd0"
    /\ self.EXIF # <<>>
    /\ MAKERNOTE \notin DOMAIN self.EXIF[1]

\* C3: open() fails with NotCR2 whenever IFD0 has no EXIF tag and whenever
\* the EXIF sub-IFD has no MAKERNOTE tag, and isOpened stays False: an
\* instance that was not opened before the call is left not opened.
C3_MissingExifOrMakernote ==
    (MissingExif \/ MissingMakernote) =>
        (call.err = "NotCR2" /\ (~call.wasOpened => ~self.isOpened))

\* C3: open() has failed on an IFD0 without the EXIF tag
C3_Witness ==
    MissingExif /\ call.stage = "ifd0" /\ call.err = "NotCR2"

\* open() read the MakerNote IFD and found no SENSOR_INFO tag in it
MissingSensorInfo ==
    /\ PassedHeader
    /\ call.stage \notin {"ifd0", "exif"}
    /\ self.MAKERNOTES # <<>>
    /\ SENSOR_INFO \notin DOMAIN self.MAKERNOTES[1]

\* open() read IFD3 and found no STRIP_OFFSET or no STRIP_BYTES_COUNT in it
MissingStripTag ==
    /\ PassedHeader
    /\ call.stage \in {"ifd3", "done"}
    /\ self.IFD3 # <<>>
    /\ \/ STRIP_OFFSET \notin DOMAIN self.IFD3[1]
       \/ STRIP_BYTES_COUNT \notin DOMAIN self.IFD3[1]

\* C4: open() fails with NotCR2, and with no other error kind, whenever
\* SENSOR_INFO is absent from the MakerNote IFD or STRIP_OFFSET or
\* STRIP_BYTES_COUNT is absent from IFD3.
C4_MissingRequiredTag ==
    (MissingSensorInfo \/ MissingStripTag) => call.err = "NotCR2"

\* C5: after a successful open() the slice descriptor is (STRIP_OFFSET,
\* count, STRIP_BYTES_COUNT, width, last_width) when IFD3 has the CR2_SLICE
\* tag and (STRIP_OFFSET, 0, STRIP_BYTES_COUNT, full_width, 0) when it has
\* not, so that count * width + last_width is the width of the decoded
\* image in both representations.
C5_SliceDescriptor ==
    (PassedHeader /\ call.err = "none") =>
        LET tags == self.IFD3[1]
            d == self.CR2_SLICES[1]
            strip_offset == tags[STRIP_OFFSET].v[1]
            strip_bytes == tags[STRIP_BYTES_COUNT].v[1]
        IN  /\ d = IF CR2_SLICE \in DOMAIN tags
                   THEN <<strip_offset, tags[CR2_SLICE].v[1], strip_bytes,
                          tags[CR2_SLICE].v[2], tags[CR2_SLICE].v[3]>>
                   ELSE <<strip_offset, 0, strip_bytes, file.raster.w, 0>>
            /\ d[2] * d[4] + d[5] = file.raster.w

\* the call was made on an instance that close() had closed
CalledAfterClose ==
    /\ call.op \in {"load", "close"}
    /\ ~call.wasOpened
    /\ self.fp = "closed"

\* C6: after close() on an open instance the file handle is closed and
\* isOpened is False, and every later call on the instance (load() with or
\* without a file name, a second close()) fails with NotOpen and returns no
\* image.
C6_ClosedStaysClosed ==
    /\ (call.op = "close" /\ call.wasOpened) =>
            (self.fp = "closed" /\ ~self.isOpened)
    /\ CalledAfterClose => (call.err = "NotOpen" /\ call.ret = <<>>)

\* C7: load(fname) on an instance that is not open (constructed without a
\* file name, or closed) opens the file itself and parses the container:
\* the call does not fail because the instance was not open.
C7_LoadOpensFile ==
    (call.op = "load" /\ call.fname # <<>> /\ ~call.wasOpened) =>
        /\ self.fp = "open"
        /\ call.err \notin {"NotOpen", "AttributeError", "ValueError"}

\* load(ifd=3) decoded the raw frame
DecodedFrame ==
    /\ call.op = "load"
    /\ call.ifd = 3
    /\ call.uncropped # <<>>

\* the decoded array is at least as large as the borders
CoversBorders ==
    LET border == GetImageBorders(self.Sensor[1])
    IN  /\ call.uncropped[1].h >= border[2]
        /\ call.uncropped[1].w >= border[3]

\* C8: for ifd=3 and a decoded array A at least as large as the borders,
\* load(full_frame=False) returns exactly A[top_eff..bottom_eff,
\* left_eff..right_eff], of shape (bottom_eff - top_eff, right_eff -
\* left_eff), where left_eff = left + (left mod 2), top_eff = top + (top
\* mod 2), right_eff = right - (right mod 2), bottom_eff = bottom - (bottom
\* mod 2); load(full_frame=True) returns A unchanged.
C8_CropOrFullFrame ==
    (DecodedFrame /\ CoversBorders) =>
        LET A == call.uncropped[1]
            sensor == self.Sensor[1]
            left_eff == sensor.left_border + (sensor.left_border % 2)
            top_eff == sensor.top_border + (sensor.top_border % 2)
            right_eff == sensor.right_border - (sensor.right_border % 2)
            bottom_eff == sensor.bottom_border - (sensor.bottom_border % 2)
        IN  /\ call.err = "none"
            /\ call.ret # <<>>
            /\ IF call.full_frame
               THEN call.ret[1] = A
               ELSE /\ call.ret[1].h = bottom_eff - top_eff
                    /\ call.ret[1].w = right_eff - left_eff
                    /\ \A i \in 1..(bottom_eff - top_eff),
                          j \in 1..(right_eff - left_eff) :
                            call.ret[1].d[i][j] = A.d[top_eff + i][left_eff + j]

\* C8: load(full_frame=False) has returned a proper part of the decoded
\* array, cut at borders that the parity rule moved
C8_Witness ==
    /\ DecodedFrame
    /\ CoversBorders
    /\ ~call.full_frame
    /\ call.ret # <<>>
    /\ call.ret[1].h > 0
    /\ call.ret[1].w > 0
    /\ call.ret[1].w < call.uncropped[1].w
    /\ self.Sensor[1].left_border % 2 = 1
    /\ self.Sensor[1].bottom_border % 2 = 1

\* the invariant of the Sensor record
SensorInvariant ==
    LET sensor == self.Sensor[1]
    IN  /\ 0 <= sensor.left_border
        /\ sensor.left_border < sensor.right_border
        /\ sensor.right_border <= sensor.width
        /\ 0 <= sensor.top_border
        /\ sensor.top_border < sensor.bottom_border
        /\ sensor.bottom_border <= sensor.height

\* C9: for every Sensor with 0 <= left < right <= width and 0 <= top <
\* bottom <= height, the borders getImageBorders() returns are all even,
\* have left_eff <= right_eff and top_eff <= bottom_eff, and lie inside the
\* maker-note borders.
C9_BordersEvenAndInside ==
    (self.Sensor # <<>> /\ SensorInvariant) =>
        LET sensor == self.Sensor[1]
            border == GetImageBorders(sensor)
        IN  /\ \A i \in 1..4 : border[i] % 2 = 0
            /\ border[1] <= border[3]
            /\ border[4] <= border[2]
            /\ sensor.left_border <= border[1]
            /\ border[3] <= sensor.right_border
            /\ sensor.top_border <= border[4]
            /\ border[2] <= sensor.bottom_border

\* C9: the borders of a sensor whose four maker-note borders are odd, two
\* of them one apart
C9_Witness ==
    /\ self.Sensor # <<>>
    /\ SensorInvariant
    /\ self.Sensor[1].left_border % 2 = 1
    /\ self.Sensor[1].top_border % 2 = 1
    /\ self.Sensor[1].right_border % 2 = 1
    /\ self.Sensor[1].bottom_border = self.Sensor[1].top_border + 1
    /\ call.op = "init"
    /\ self.size = <<<<GetImageBorders(self.Sensor[1])[3]
                        - GetImageBorders(self.Sensor[1])[1],
                       GetImageBorders(self.Sensor[1])[2]
                        - GetImageBorders(self.Sensor[1])[4]>>>>

\* C10: load(full_frame=False) fails with SmallRaw, returning no image,
\* whenever the decoded array has fewer rows than bottom_eff or fewer
\* columns than right_eff; it never returns an image smaller than
\* (bottom_eff - top_eff, right_eff - left_eff).
C10_SmallRaw ==
    (DecodedFrame /\ ~call.full_frame) =>
        LET border == GetImageBorders(self.Sensor[1])
        IN  /\ ~CoversBorders => (call.err = "SmallRaw" /\ call.ret = <<>>)
            /\ call.ret # <<>> =>
                    /\ call.ret[1].h >= border[2] - border[4]
                    /\ call.ret[1].w >= border[3] - border[1]

\* load(ifd=3) ran the native decoder on an open instance
NativeDecode ==
    /\ call.op = "load"
    /\ call.ifd = 3
    /\ call.wasOpened
    /\ (call.native_decoder \/ ~HasExternalDecoder(self))

\* C11: the native decoder fails with InvalidMarker, before any Huffman
\* decoding starts, whenever the first two bytes of the raw strip are not
\* FF D8 or its last two bytes are not FF D9.
C11_InvalidMarker ==
    (NativeDecode /\ (~file.strip.soi \/ ~file.strip.eoi)) =>
        /\ call.err = "InvalidMarker"
        /\ call.uncropped = <<>>
        /\ call.ret = <<>>

\* C11: the native decoder has failed on a strip that starts with FF D8
\* and does not end with FF D9
C11_Witness ==
    /\ NativeDecode
    /\ file.strip.soi
    /\ ~file.strip.eoi
    /\ call.err = "InvalidMarker"

\* the native decoder returned an array
NativeDecoded == NativeDecode /\ call.uncropped # <<>>

\* C12: for slice widths S = [sw] * n + [lw] with sum(S) = W and a decoded
\* raster of H rows and W columns flattened row-major into F, the output
\* has out[r][c_i + k] = F[H * c_i + r * S[i] + k] for every slice i (c_i =
\* S[0] + ... + S[i-1]), every row r and every k < S[i]; every output cell
\* is written once and the output is a permutation of the raster.
C12_SliceReassembly ==
    (NativeDecoded
     /\ SumSeq(SlicesSize(self.CR2_SLICES[1])) = file.raster.w) =>
        LET out == call.uncropped[1]
            S == SlicesSize(self.CR2_SLICES[1])
            H == file.raster.h
            W == file.raster.w
            F == [x \in 0..(H * W - 1) |-> x]
            c(i) == SumSeq(SubSeq(S, 1, i - 1))
        IN  /\ out.h = H
            /\ out.w = W
            /\ \A i \in 1..Len(S), r \in 0..(H - 1) :
                \A k \in 0..(S[i] - 1) :
                    out.d[r + 1][c(i) + k + 1] = F[H * c(i) + r * S[i] + k]
            /\ \A x \in 0..(H * W - 1) :
                    Cardinality({rc \in (1..H) \X (1..W) :
                                    out.d[rc[1]][rc[2]] = x}) = 1

\* C12: the native decoder has reassembled two slices of a raster of at
\* least two rows into an array that differs from the raster
C12_Witness ==
    /\ NativeDecoded
    /\ SumSeq(SlicesSize(self.CR2_SLICES[1])) = file.raster.w
    /\ file.raster.h >= 2
    /\ file.raster.w >= 3
    /\ call.uncropped[1].d[2][1] # file.raster.w

\* C13: when the slice count is 0 (CR2_SLICE absent, or present with count
\* 0) the native decoder treats the image as the single slice S = [W] and
\* returns the decoded H x W raster unchanged, without failing.
C13_SingleSlice ==
    (NativeDecode
     /\ file.strip.soi
     /\ file.strip.eoi
     /\ self.CR2_SLICES # <<>>
     /\ self.CR2_SLICES[1][2] = 0) =>
        /\ call.err = "none"
        /\ call.uncropped # <<>>
        /\ call.uncropped[1] =
                Array(file.raster.h, file.raster.w,
                      [r \in 1..file.raster.h |->
                          [c \in 1..file.raster.w |->
                              (r - 1) * file.raster.w + (c - 1)]])

BuiltTable ==
    /\ phase = "returned"
    /\ call.op = "HuffmanTable"
    /\ call.ret[1].err = "none"

\* the canonical first code of the given length for the length counts L:
\* the code starts at 0, is advanced by one for each symbol and shifted
\* left by one after each length
CanonicalStart(L, length) ==
    SumSeq([j \in 1..(length - 1) |-> L[j] * Pow2(length - j)])

\* a table whose counts leave room for every code: at each length the
\* canonical codes fit in that many bits
FitsCodeSpace(L) ==
    \A length \in 1..MAX_HUFFMAN_BITS :
        CanonicalStart(L, length) + L[length] <= Pow2(length)

\* the code map is the canonical assignment of the table in the segment:
\* sum(L) entries, none a prefix of another, each symbol under the code of
\* its length and number
IsCanonicalTable ==
    LET data == call.args[1]
        L == [length \in 1..MAX_HUFFMAN_BITS |-> data[5 + length]]
        symbols == SubSeq(data, 22, Len(data))
        codes == call.ret[1].codes[<<0, 0>>]
        Value(code) == SumSeq([b \in 1..Len(code) |->
                                  code[b] * Pow2(Len(code) - b)])
        Before(length) == SumSeq(SubSeq(L, 1, length - 1))
    IN  /\ Cardinality(DOMAIN codes) = SumSeq(L)
        /\ \A a \in DOMAIN codes, b \in DOMAIN codes :
                (a # b) => ~(Len(a) <= Len(b) /\ SubSeq(b, 1, Len(a)) = a)
        /\ {<<Len(code), Value(code), codes[code]>> : code \in DOMAIN codes}
           = UNION {{<<length, CanonicalStart(L, length) + k - 1,
                       symbols[Before(length) + k]>> : k \in 1..L[length]} :
                    length \in 1..MAX_HUFFMAN_BITS}

DecodedStream(kind) ==
    /\ phase = "returned"
    /\ call.op = "decodeRawImage"
    /\ call.args[1] = kind

\* the places of the 00 bytes of the payload that stand right after an FF
StuffingOf(payload) ==
    {j \in 2..Len(payload) : payload[j] = 0 /\ payload[j - 1] = 255}

\* the payload without the bytes at the places drop
RECURSIVE WithoutBytes(_, _)
WithoutBytes(payload, drop) ==
    IF drop = {} THEN payload
    ELSE With(CHOOSE j \in drop : \A k \in drop : k <= j, LAMBDA j :
           WithoutBytes(SubSeq(payload, 1, j - 1)
                        \o SubSeq(payload, j + 1, Len(payload)),
                        drop \ {j}))

\* the tables that decodeRawImage reads from the segments of the stream
TablesOf(st) ==
    WalkMarkers(JpegStrip(st), 0,
                [dht |-> <<>>, sof |-> <<>>, sos |-> <<>>], -1).hts

Filled(h, w, v) == Array(h, w, [i \in 1..h |-> [j \in 1..w |-> v]])

\* C20: a stream with a single table whose deltas are all 0, psv 1 and
\* precision p decodes to the H x W image whose samples are all 2^(p-1),
\* however short its payload is.
C20_ZeroDeltas ==
    DecodedStream("zero") =>
        /\ call.ret[1].err = "none"
        /\ call.ret[1].img =
             <<Filled(call.args[3].height,
                      call.args[3].width * call.args[3].components,
                      Pow2(call.args[3].bits - 1))>>

\* the delta that the field of s bits stands for
DeltaOf(field) ==
    IF field = <<>> THEN 0
    ELSE IF field[1] = 1 THEN IntOfBits(field)
    ELSE IntOfBits(field) - (Pow2(Len(field)) - 1)

\* C15: for every symbol s of 0..16 and every field of s bits after it the
\* decoder does not fail, the delta is 0 for s = 0, the field for a top bit
\* of 1 and the field - (2^s - 1) for a top bit of 0, and the code and s
\* bits are consumed (the next sample is read right after them).
C15_AdditionalBits ==
    DecodedStream("field") =>
        /\ call.ret[1].err = "none"
        /\ Len(call.ret[1].trace) = 2
        /\ \A k \in 1..2 :
             /\ call.ret[1].trace[k].at = (k - 1) * (1 + call.args[4].s)
             /\ call.ret[1].trace[k].sbin = call.args[4].field
             /\ call.ret[1].trace[k].val = DeltaOf(call.args[4].field)

\* C17: with n >= 2 distinct tables the k-th decoded symbol (k = 0, 1, ...)
\* has its code matched against, and its value read from, one and the same
\* table, the (k mod n)-th in the order in which the tables are declared.
C17_TableCycle ==
    (DecodedStream("tables") /\ call.args[4].distinct) =>
        \A k \in 1..Len(call.ret[1].trace) :
            /\ call.ret[1].trace[k].matched =
                   call.args[4].order[((k - 1) % 2) + 1]
            /\ call.ret[1].trace[k].read = call.ret[1].trace[k].matched

\* the bits that the samples of the raster of a short stream take
BitsNeeded ==
    3 * Min(call.args[4].lead, call.args[3].height * call.args[3].width)
    + 16 * Max(call.args[3].height * call.args[3].width
               - call.args[4].lead, 0)

\* C18: when the data ends before the H x W samples, or before all the
\* magnitude bits of a sample, have been read the decoder fails with
\* CorruptedData and returns no image; an image that is returned holds no
\* sample decoded from fewer bits than its symbol says.
C18_CorruptedData ==
    DecodedStream("short") =>
        /\ BitsNeeded > 8 * Len(call.args[3].payload) =>
              /\ call.ret[1].err = "CorruptedData"
              /\ call.ret[1].img = <<>>
        /\ call.ret[1].err = "none" =>
              \A k \in 1..Len(call.ret[1].trace) :
                  Len(call.ret[1].trace[k].sbin) = call.ret[1].trace[k].dlen

\* what load() is to leave alone
Kept(s) == <<s.version, s.Sensor, s.CR2_SLICES, s.isOpened>>

\* C21: a load(full_frame=True) right after one with the same arguments on
\* the opened instance returns the array that the first returned, sample
\* for sample, and leaves version, Sensor, the slices and isOpened as they
\* were: nothing that the first load left behind changes the second.
C21_LoadTwice ==
    [][(call'.op = "load" /\ call'.again /\ call'.full_frame)
          => /\ call'.err = "none"
             /\ call'.ret = call.ret
             /\ Kept(self') = Kept(self)]_vars

\* C21: a second load(full_frame=True) with the native decoder has returned
C21_Witness ==
    /\ call.op = "load" /\ call.again
    /\ call.full_frame /\ call.native_decoder
    /\ call.err = "none" /\ call.ret # <<>>

\* decodeExternalDecoder has returned
ChildReturned ==
    /\ phase = "returned"
    /\ call.op = "decodeExternalDecoder"

\* C22: when the child ended with a nonzero status, or wrote what is no PGM,
\* the call fails with the ExternalDecoder error and returns no image.
C22_ExternalDecoderError ==
    (ChildReturned /\ (call.args[2] # 0 \/ call.args[3] # "pgm")) =>
        /\ call.err = "ExternalDecoder"
        /\ call.ret = <<>>

\* C29: the parent is never waiting in p.stdout.read() with an empty stdout
\* pipe while the child waits to write to a full stderr pipe.
C29_NoPipeDeadlock ==
    ~(/\ phase = "called" /\ call.op = "decodeExternalDecoder"
      /\ call.pc = "read" /\ call.stdout = 0
      /\ call.child = "running" /\ call.program # <<>>
      /\ Head(call.program) = "stderr" /\ call.stderr = PipeCap)

\* _readIfd has returned
IfdRead == phase = "returned" /\ call.op = "_readIfd"

\* the entries that _readIfd went through
EntriesRead == call.ret[1].read

\* no entry after the k-th has its tag
IsLastOfTag(k) ==
    \A j \in (k + 1)..Len(EntriesRead) :
        EntriesRead[j].entry.tag # EntriesRead[k].entry.tag

\* the value stored for the tag of the k-th entry
Stored(k) == call.ret[1].tags[EntriesRead[k].entry.tag]

\* the bytes of the value field of the k-th entry
ValueField(k) ==
    PySlice(call.args[1], EntriesRead[k].at + 8, EntriesRead[k].at + 12)

\* the count values of size bytes each that stand in the value field; a
\* single one as the code reads it
InlineValues(k) ==
    With(EntriesRead[k].entry, LAMBDA e :
      IF e.count = 1 THEN GetExifValue(e.valoff, e.type)
      ELSE List([j \in 1..e.count |->
                   GetExifValue(
                     ReconstructDataFromString(call.args[2],
                        PySlice(ValueField(k), (j - 1) * GetTypeSize(e.type),
                                j * GetTypeSize(e.type))),
                     e.type).v[1]]))

\* C23: an entry whose count x type size is at most 4 bytes has the value
\* that stands in its value field; only a larger one is read at the offset.
C23_InlineWhenItFits ==
    IfdRead =>
        \A k \in 1..Len(EntriesRead) :
            (/\ IsLastOfTag(k)
             /\ GetTypeSize(EntriesRead[k].entry.type) > 0
             /\ EntriesRead[k].entry.count
                    * GetTypeSize(EntriesRead[k].entry.type) <= 4)
                => Stored(k) = InlineValues(k)

\* C25: for every entry of type 7, whatever its count, the stored value is
\* the tuple ("undefined", count, value_or_offset), whose element [2] is
\* there to follow.
C25_UndefinedTuple ==
    IfdRead =>
        \A k \in 1..Len(EntriesRead) :
            (IsLastOfTag(k) /\ EntriesRead[k].entry.type = 7)
                => /\ Stored(k) = [k |-> "undefined",
                                   v |-> <<EntriesRead[k].entry.count,
                                           EntriesRead[k].entry.valoff>>]
                   /\ Subscript(Stored(k), 2)
                          = <<EntriesRead[k].entry.valoff>>

\* C26: the k-th entry (k = 0..N-1) of the IFD at offset o is read at
\* o + 2 + 12 k whatever the entries before it were, the cursor ends after
\* the N-th entry, and the last entry of a tag gives the stored value.
C26_CursorRestored ==
    IfdRead =>
        /\ Len(EntriesRead)
              = ReconstructDataFromString(call.args[2],
                    PySlice(call.args[1], call.args[3], call.args[3] + 2))
        /\ \A k \in 1..Len(EntriesRead) :
              /\ EntriesRead[k].at = call.args[3] + 2 + 12 * (k - 1)
              /\ IsLastOfTag(k) =>
                    Stored(k) = ValueOf(call.args[1], call.args[2],
                                        EntriesRead[k].entry, 0).val
        /\ call.ret[1].pos = call.args[3] + 2 + 12 * Len(EntriesRead)

\* C26: an IFD of two entries of one tag has been read, the first with
\* three values out of line, and the second gave the stored value
C26_Witness ==
    /\ IfdRead
    /\ Len(EntriesRead) = 2
    /\ EntriesRead[1].entry.tag = EntriesRead[2].entry.tag
    /\ EntriesRead[1].entry.type = 3 /\ EntriesRead[1].entry.count = 3
    /\ Stored(1) # ValueOf(call.args[1], call.args[2],
                           EntriesRead[1].entry, 0).val

\* decodeRawImage has returned an image
ImageDecoded ==
    /\ phase = "returned"
    /\ call.op = "decodeRawImage"
    /\ call.ret[1].err = "none"

\* the columns of a row of the frame of the call, and its components
FrameColumns == call.args[3].width * call.args[3].components

\* the sample and the difference decoded at row r, column x (from 0)
SampleAt(r, x) == call.ret[1].trace[r * FrameColumns + x + 1].sample
DeltaAt(r, x) == call.ret[1].trace[r * FrameColumns + x + 1].val

\* the sample of the row above, 0 in the first row
AboveAt(r, x) == IF r = 0 THEN 0 ELSE SampleAt(r - 1, x)

\* C24: in the first component_count columns the sample is the register of
\* the column plus the difference: 2^(precision-1) + delta in row 0, the
\* sample of the row above + delta in every later row; in every other column
\* it is getPredictor(psv, row[x - c], prev_row[x] or 0, prev_row[x - c] or
\* 0) + delta.
C24_PredictorRegisters ==
    ImageDecoded =>
        /\ Len(call.ret[1].trace) = call.args[3].height * FrameColumns
        /\ call.args[1] = "predict" =>
              \A k \in 1..Len(call.ret[1].trace) :
                  call.ret[1].trace[k].val = call.args[4].deltas[k]
        /\ \A r \in 0..(call.args[3].height - 1) :
           \A x \in 0..(FrameColumns - 1) :
              SampleAt(r, x) =
                  DeltaAt(r, x)
                  + (IF x < call.args[3].components
                     THEN IF r = 0 THEN Pow2(call.args[3].bits - 1)
                          ELSE SampleAt(r - 1, x)
                     ELSE GetPredictorValue(call.args[3].psv,
                              SampleAt(r, x - call.args[3].components),
                              AboveAt(r, x),
                              AboveAt(r, x - call.args[3].components)))

\* C24: a frame of two rows of two components has been decoded with
\* predictor 7, the differences of the first columns not zero in either row
C24_Witness ==
    /\ ImageDecoded
    /\ call.args[1] = "predict"
    /\ call.args[3].components = 2
    /\ call.args[3].psv = 7
    /\ DeltaAt(0, 0) = 1 /\ DeltaAt(1, 0) = 1
    /\ SampleAt(1, 0) = Pow2(call.args[3].bits - 1) + 2
    /\ DeltaAt(1, 2) = -1

\* the places of the FF bytes of the payload that another byte than 00
\* follows: the markers
MarkersOf(payload) ==
    {j \in 1..(Len(payload) - 1) : payload[j] = 255 /\ payload[j + 1] # 0}

\* the bits of the image data that stand before the byte at place j of the
\* payload
BitsBefore(payload, j) ==
    8 * (j - 1 - Cardinality({k \in StuffingOf(payload) : k < j}))

\* C27: when the payload holds a marker (FF and another byte than 00), the
\* bits of every code and of every magnitude that is decoded stand before
\* the first marker.
C27_StopsAtMarker ==
    (DecodedStream("stuffed") /\ MarkersOf(call.args[3].payload) # {}) =>
        \A k \in 1..Len(call.ret[1].trace) :
            call.ret[1].trace[k].at + Len(call.ret[1].trace[k].key)
                + call.ret[1].trace[k].dlen
              <= BitsBefore(call.args[3].payload,
                            Least(MarkersOf(call.args[3].payload), 0))

\* the instance that the constructor leaves for the file of the behaviour
\* when its parse succeeds
Parsed == Open([NewInstance(file) EXCEPT !.fp = "open"], file)

\* the attributes that open() sets from the IFDs
Parts == {"IFD0", "EXIF", "MAKERNOTES", "Sensor", "IFD3", "CR2_SLICES"}

\* C28: whenever isOpened is True the file handle is open and IFD0, EXIF,
\* MAKERNOTES, Sensor, IFD3 and the slice descriptor are all there, as one
\* successful parse of the file sets them; and after a failing open() on an
\* instance that was not open isOpened is not True.
C28_OpenedConsistent ==
    /\ self.isOpened =>
          /\ self.fp = "open"
          /\ Parsed.err = "none"
          /\ \A a \in Parts : self[a] # <<>> /\ self[a] = Parsed.self[a]
    /\ (call.op \in {"init", "open"} /\ call.err # "none"
          /\ ~call.wasOpened) => ~self.isOpened

\* C30: once the constructor has opened the file, close(), called by the
\* user or by the destruction of the instance, leaves the handle closed,
\* also when open() failed before it set every attribute: no instance is
\* discarded with its handle open.
C30_HandleClosed ==
    /\ call.op \in {"close", "del"} => self.fp # "open"
    /\ phase = "discarded" => self.fp # "open"

====
